---- MODULE Spec2Model ----
(***************************************************************************)
(* The sidecar's worker pool (parallel/pool.rs, parallel/worker.rs,        *)
(* parallel/task.rs) and its request dispatcher (main.rs, protocol.rs,     *)
(* handlers.rs) as state machines.                                         *)
(*                                                                         *)
(* Pool: one owner thread constructs the pool (ThreadPool::new), callers   *)
(* borrow it for process / process_batch / stats, and the owner consumes   *)
(* it in shutdown.  Workers loop lock -> recv -> render+send.  The         *)
(* renderer (markdown_to_html) is an external collaborator: it returns Ok, *)
(* returns Err, or panics, chosen nondeterministically.                    *)
(***************************************************************************)
EXTENDS Integers, Sequences, FiniteSets, TLC

\* ---------------------------------------------------------------- bounds
MaxWorkers == 2
MaxTasks == 3
MaxLines == 2
MaxContent == 4
MaxFiles == 3
MaxBatchLen == 10
MaxChunks == 4
MaxCostLen == 4
MaxBatchTasks == 3
MaxCpus == 10
MaxOutcomes == 3
MaxThreads == 2

NoWorker == -1
NoTask == 0

WorkerIds == 0..(MaxWorkers - 1)
TaskIds == 1..MaxTasks
Durations == {0, 1}
SingleCaller == {1}
Callers == {1, 2}
GlobalThreads == 1..MaxThreads

VARIABLES
    \* ---- ThreadPool (pool.rs:13-21) and its owner's position
    poolPc,          \* "new" | "running" | "shutdown_send" | "shutdown_join" | "terminated" | "dropped"
    requested,       \* the n of ThreadPool::new(Some(n))
    num_workers,     \* ThreadPool.num_workers
    workers,         \* ThreadPool.workers: the Vec<Worker> handles (ids), in spawn order
    task_channel,    \* messages in flight from task_sender to task_receiver
    result_channel,  \* results in flight from result_sender to result_receiver
    rxLock,          \* holder of the Mutex around task_receiver, or NoWorker
    stats,           \* ThreadPool.stats: worker id -> WorkerStats
    statsFirst,      \* the key DashMap's iter().next() yields for this pool
    sdSent,          \* shutdown(): Shutdown messages sent so far
    joined,          \* shutdown(): workers joined so far
    \* ---- Worker threads (worker.rs:40-91)
    wpc,             \* worker id -> "unspawned" | "lock" | "recv" | "exec" | "exited" | "panicked"
    wtask,           \* worker id -> id of the task it holds, or NoTask
    \* ---- callers of the pool's API
    callers,         \* caller -> its position inside process / process_batch / stats
    nextId,          \* next fresh task id
    \* ---- history (what happened to each task)
    dequeued,        \* task id -> number of times a worker dequeued it
    emitted,         \* task id -> number of results sent for it
    queuedAtShutdown, \* ids of the tasks that were in the queue when shutdown() was entered
    \* ---- the dispatcher (main.rs:23-82)
    dpc,             \* "loop" | "eof" | "exited"
    linesRead,       \* input lines consumed so far
    line,            \* the line of the current (latest) iteration
    output,          \* the frames written to stdout, in order
    \* ---- one call of a pure function (normalize, computeDigest, split)
    fnPc,            \* "none" | the function about to be called | "returned"
    fnArg,           \* the call's argument
    fnRet,           \* the value the call returned
    \* ---- the global pool (mod.rs:90-119) and the threads that use it
    FASTMD_PARALLEL, \* the environment variable, or Missing
    GLOBAL_POOL,     \* static mut GLOBAL_POOL: "None" | "Some"
    POOL_INIT,       \* the Once: "incomplete" | "running" | "complete"
    built,           \* number of pools ThreadPoolBuilder::build has made for it
    gpc,             \* thread -> "idle" | "closure" | "finish" | "read"
    gsaw,            \* thread -> what shutdowns had happened when its call began
    gret,            \* thread -> what its last global_pool() call returned
    gdown            \* "no" | "early" | "late": shutdown_global_pool calls so far

poolVars == <<poolPc, requested, num_workers, workers, task_channel, result_channel,
              rxLock, stats, statsFirst, sdSent, joined>>
workerVars == <<wpc, wtask>>
callerVars == <<callers, nextId>>
histVars == <<dequeued, emitted, queuedAtShutdown>>
dispVars == <<dpc, linesRead, line, output>>
fnVars == <<fnPc, fnArg, fnRet>>
globalVars == <<FASTMD_PARALLEL, GLOBAL_POOL, POOL_INIT, built, gpc, gsaw, gret, gdown>>
vars == <<poolVars, workerVars, callerVars, histVars, dispVars, fnVars, globalVars>>

\* ------------------------------------------------------------- messages
\* WorkerMessage (worker.rs:11-14)
TaskMsg(id) == [type |-> "Task", id |-> id]
ShutdownMsg == [type |-> "Shutdown", id |-> NoTask]

\* TaskResult (task.rs:28-41)
Success(id, d) == [kind |-> "Success", id |-> id, duration_ms |-> d, recoverable |-> FALSE]
Failure(id, rec) == [kind |-> "Failure", id |-> id, duration_ms |-> 0, recoverable |-> rec]
is_success(r) == r.kind = "Success"

\* WorkerStats (worker.rs:128-142)
WorkerStatsDefault == [tasks_processed |-> 0, total_duration_ms |-> 0, errors |-> 0]
record_success(s, d) ==
    [s EXCEPT !.tasks_processed = @ + 1, !.total_duration_ms = @ + d]
record_failure(s) == [s EXCEPT !.errors = @ + 1]

\* ------------------------------------------------------------ TaskBatch
\* a chunking that keeps only the chunks of full size
RECURSIVE ChunksExact(_, _)
ChunksExact(s, size) ==
    IF Len(s) < size THEN <<>>
    ELSE <<SubSeq(s, 1, size)>> \o ChunksExact(SubSeq(s, size + 1, Len(s)), size)

\* slice::chunks(chunk_size): consecutive chunks, the last one possibly shorter
RECURSIVE Chunks(_, _)
Chunks(s, size) ==
    IF Len(s) = 0 THEN <<>>
    ELSE IF Len(s) <= size THEN <<s>>
    ELSE <<SubSeq(s, 1, size)>> \o Chunks(SubSeq(s, size + 1, Len(s)), size)

\* a split that cuts a batch of exactly num_chunks tasks
SplitBelow(tasks, num_chunks) ==
    IF num_chunks <= 1 \/ Len(tasks) < num_chunks
    THEN <<tasks>>
    ELSE Chunks(tasks, (Len(tasks) + num_chunks - 1) \div num_chunks)

\* TaskBatch::split (task.rs:113-125)
Split(tasks, num_chunks) ==
    IF num_chunks <= 1 \/ Len(tasks) <= num_chunks
    THEN <<tasks>>
    ELSE Chunks(tasks, (Len(tasks) + num_chunks - 1) \div num_chunks)

RECURSIVE Flatten(_)
Flatten(ss) == IF Len(ss) = 0 THEN <<>> ELSE Head(ss) \o Flatten(Tail(ss))

\* the order in which process_batch sends the tasks (pool.rs:78-87)
SendOrder(tasks, n) == Flatten(Split(tasks, n))

\* ------------------------------------------------------------ protocol
\* error codes (protocol.rs:52-61)
PARSE_ERROR == -32700
INVALID_REQUEST == -32600
METHOD_NOT_FOUND == -32601
INVALID_PARAMS == -32602

\* the id member of an input frame, by JSON type
AbsentId == [kind |-> "absent", val |-> ""]
IdValues ==
    {AbsentId,
     [kind |-> "null", val |-> "null"],
     [kind |-> "integer", val |-> "7"],
     [kind |-> "fraction", val |-> "1.5"],
     [kind |-> "string", val |-> "a"]}

Missing == "<missing>"
ParamMethods == {"transform", "normalize", "computeDigest"}
PlainMethods == {"ping", "shutdown", "log", "other"}

JsonLine(j, i, m, p) ==
    [kind |-> "json", jsonrpc |-> j, id |-> i, method |-> m, params |-> p]

\* the input lines: a line read() fails on, a blank line, a line that is not
\* JSON, and JSON objects with or without each envelope member
Lines ==
    {[JsonLine(Missing, AbsentId, Missing, Missing) EXCEPT !.kind = k] :
            k \in {"unreadable", "blank", "garbage"}}
    \cup
    {JsonLine(j, i, m, Missing) :
            j \in {"2.0", Missing}, i \in IdValues, m \in PlainMethods \cup {Missing}}
    \cup {JsonLine(j, i, m, p) :
            j \in {"2.0", Missing}, i \in IdValues, m \in ParamMethods,
            p \in {Missing, "null", "bad", "ok"}}

NoLine == [JsonLine(Missing, AbsentId, Missing, Missing) EXCEPT !.kind = "none"]

\* RpcId (protocol.rs:36-41), untagged: an i64 or a string and nothing else
IsRpcId(i) == i.kind \in {"integer", "string"}

\* RpcRequest (protocol.rs:11-17): jsonrpc, id and method are required
IsRpcRequest(f) ==
    f.jsonrpc # Missing /\ IsRpcId(f.id) /\ f.method # Missing

\* RpcNotification (protocol.rs:19-24): jsonrpc and method are required,
\* members it does not name are ignored
IsRpcNotification(f) ==
    f.jsonrpc # Missing /\ f.method # Missing

\* serde_json::from_str::<RpcMessage> (main.rs:56, protocol.rs:4-9): the
\* untagged enum takes the first variant that deserializes
Decode(f) ==
    IF f.kind # "json" THEN "error"
    ELSE IF IsRpcRequest(f) THEN "request"
    ELSE IF IsRpcNotification(f) THEN "notification"
    ELSE "error"

\* params: Option<Value>: a missing member and null are both None
ParamsOf(f) == IF f.params \in {Missing, "null"} THEN "none" ELSE f.params

\* RpcResponse (protocol.rs:26-34)
Response(id, type, code, body) ==
    [id |-> id, type |-> type, code |-> code, body |-> body]

\* create_response (protocol.rs:67-74)
create_response(id, body) == Response(id, "result", 0, body)

\* create_error_response (protocol.rs:76-87)
create_error_response(id, code) == Response(id, "error", code, "")

\* the id create_parse_error puts in its response
ParseErrorId == [kind |-> "string", val |-> "null"]

\* a parse error reported under the invalid-request code
create_parse_error_as_invalid == create_error_response(ParseErrorId, INVALID_REQUEST)

\* create_parse_error (protocol.rs:89-100)
create_parse_error == create_error_response(ParseErrorId, PARSE_ERROR)

\* a method-not-found error that loses the request's id
create_method_not_found_null_id(id) == create_error_response(ParseErrorId, METHOD_NOT_FOUND)

\* create_method_not_found (protocol.rs:102-104)
create_method_not_found(id) == create_error_response(id, METHOD_NOT_FOUND)

\* a ping whose response carries the id as a string, whatever its kind
handle_ping_id_as_string(id) == create_response([kind |-> "string", val |-> id.val], "pong")

\* handle_ping (handlers.rs:67-69)
handle_ping(id) == create_response(id, "pong")

\* handle_transform, handle_normalize, handle_compute_digest
\* (handlers.rs:71-80, 239-248, 273-282): the params checks, then the result
handle_params(id, method, params) ==
    IF params = "none" THEN create_error_response(id, INVALID_PARAMS)
    ELSE IF params = "bad" THEN create_error_response(id, INVALID_PARAMS)
    ELSE create_response(id, method)

\* handle_request (main.rs:84-96) for every method but shutdown
handle_request(f) ==
    IF f.method = "ping" THEN handle_ping(f.id)
    ELSE IF f.method \in ParamMethods
         THEN handle_params(f.id, f.method, ParamsOf(f))
    ELSE create_method_not_found(f.id)

\* ThreadPool::new(Some(n)) (pool.rs:25-26): the count given is the count
ThreadPoolNew(n) == n

\* ThreadPoolBuilder::new().workers(n).build() (pool.rs:216-235): new(Some(n))
BuilderBuild(n) == ThreadPoolNew(n)

\* ---------------------------------------------------------------- state
\* PoolStats (pool.rs:183-189); the f64 quotient is kept as the pair
\* <<dividend, divisor>>
PoolStats(n, tasks, duration, errors) ==
    [num_workers |-> n, total_tasks |-> tasks, total_duration_ms |-> duration,
     total_errors |-> errors,
     average_duration_ms |-> IF tasks > 0 THEN <<duration, tasks>> ELSE <<0, 1>>]

NoView == PoolStats(0, 0, 0, 0)

IdleCaller ==
    [pc |-> "idle", op |-> "none", submitted |-> <<>>, tosend |-> <<>>,
     task_count |-> 0, received |-> 0, results |-> <<>>, view |-> NoView]

\* the pool before ThreadPool::new has spawned a worker, and the dispatcher
\* before its first line
ProgramInit ==
    /\ poolPc = "new"
    /\ requested \in 0..MaxWorkers
    /\ num_workers \in {ThreadPoolNew(requested), BuilderBuild(requested)}
    /\ workers = <<>>
    /\ task_channel = <<>>
    /\ result_channel = <<>>
    /\ rxLock = NoWorker
    /\ stats = [k \in {} |-> WorkerStatsDefault]
    /\ statsFirst \in IF requested = 0 THEN {NoWorker} ELSE 0..(requested - 1)
    /\ sdSent = 0
    /\ joined = 0
    /\ wpc = [w \in WorkerIds |-> "unspawned"]
    /\ wtask = [w \in WorkerIds |-> NoTask]
    /\ callers = [c \in Callers |-> IdleCaller]
    /\ nextId = 1
    /\ dequeued = [t \in TaskIds |-> 0]
    /\ emitted = [t \in TaskIds |-> 0]
    /\ queuedAtShutdown = {}
    /\ dpc = "loop"
    /\ linesRead = 0
    /\ line = NoLine
    /\ output = <<>>

\* no call of a pure function is being followed
NoCall == [fn |-> "none"]

\* the statics at process start (mod.rs:91-92): no global pool, the Once
\* not run, no thread inside global_pool()
GlobalStart ==
    /\ GLOBAL_POOL = "None"
    /\ POOL_INIT = "incomplete"
    /\ built = 0
    /\ gpc = [t \in GlobalThreads |-> "idle"]
    /\ gsaw = [t \in GlobalThreads |-> "no"]
    /\ gret = [t \in GlobalThreads |-> "-"]
    /\ gdown = "no"

Init ==
    /\ ProgramInit
    /\ fnPc = "none"
    /\ fnArg = NoCall
    /\ fnRet = NoCall
    /\ GlobalStart
    /\ FASTMD_PARALLEL = Missing

\* ------------------------------------------------- the task channel
\* the queue capacity the pool is configured with (ParallelConfig.queue_size,
\* ThreadPoolBuilder::queue_size), scaled down to the model's task count
QueueSize == 1

\* the capacity of a channel whose send never waits for room
NoCapacity == -1

\* a task channel made by bounded(queue_size)
TaskCapacityBounded(queue_size) == queue_size

\* the task channel's capacity: ThreadPool::new makes it with unbounded()
\* (pool.rs:30), and ThreadPoolBuilder::build passes no queue_size on
\* (pool.rs:233-235)
TaskCapacity(queue_size) == NoCapacity

\* task_sender.send(msg) goes through without waiting
HasRoom(ch) ==
    LET cap == TaskCapacity(QueueSize) IN
    cap = NoCapacity \/ Len(ch) < cap

\* ------------------------------------------------- ThreadPool::new
\* one iteration of the spawn loop (pool.rs:38-46, Worker::spawn worker.rs:24-37)
SpawnWorker ==
    /\ poolPc = "new"
    /\ Len(workers) < num_workers
    /\ LET id == Len(workers) IN
        /\ wpc' = [wpc EXCEPT ![id] = "lock"]
        /\ stats' = [k \in (DOMAIN stats) \cup {id} |->
                        IF k = id THEN WorkerStatsDefault ELSE stats[k]]
        /\ workers' = Append(workers, id)
    /\ UNCHANGED <<poolPc, requested, num_workers, task_channel, result_channel,
                   rxLock, statsFirst, sdSent, joined, wtask, callerVars, histVars, dispVars, fnVars, globalVars>>

\* a spawn loop that stops one worker short
NewReturnEarly ==
    /\ poolPc = "new"
    /\ Len(workers) + 1 >= num_workers
    /\ poolPc' = "running"
    /\ UNCHANGED <<requested, num_workers, workers, task_channel, result_channel,
                   rxLock, stats, statsFirst, sdSent, joined, workerVars,
                   callerVars, histVars, dispVars, fnVars, globalVars>>

\* the loop is over and the pool is returned (pool.rs:48-56)
NewReturn ==
    /\ poolPc = "new"
    /\ Len(workers) >= num_workers
    /\ poolPc' = "running"
    /\ UNCHANGED <<requested, num_workers, workers, task_channel, result_channel,
                   rxLock, stats, statsFirst, sdSent, joined, workerVars,
                   callerVars, histVars, dispVars, fnVars, globalVars>>

\* --------------------------------------------------------- Worker::run
\* a lock() that does not wait for the holder to release
WorkerLockNoWait(w) ==
    /\ wpc[w] = "lock"
    /\ rxLock' = w
    /\ wpc' = [wpc EXCEPT ![w] = "recv"]
    /\ UNCHANGED <<poolPc, requested, num_workers, workers, task_channel,
                   result_channel, stats, statsFirst, sdSent, joined, wtask,
                   callerVars, histVars, dispVars, fnVars, globalVars>>

\* receiver.lock() (worker.rs:50)
WorkerLock(w) ==
    /\ wpc[w] = "lock"
    /\ rxLock = NoWorker
    /\ rxLock' = w
    /\ wpc' = [wpc EXCEPT ![w] = "recv"]
    /\ UNCHANGED <<poolPc, requested, num_workers, workers, task_channel,
                   result_channel, stats, statsFirst, sdSent, joined, wtask,
                   callerVars, histVars, dispVars, fnVars, globalVars>>

\* the pool's fields are dropped at the end of shutdown (pool.rs:178) or
\* when its owner lets it go without a shutdown
PoolGone == poolPc \in {"terminated", "dropped"}

\* the task channel is disconnected when every Sender is gone; the pool owns
\* task_sender (pool.rs:15) until it is dropped
TaskSendersAlive == ~PoolGone

\* a send on the result channel fails once its only Receiver, the pool's
\* result_receiver (pool.rs:18), is dropped
ResultReceiverAlive == ~PoolGone

\* a pool that keeps no Sender of the result channel for itself
ResultSendersWorkersOnly ==
    \E w \in WorkerIds : wpc[w] \in {"lock", "recv", "exec"}

\* the result channel is disconnected for a receiver when every Sender is
\* gone: the pool's own result_sender (pool.rs:17) and each worker's clone
ResultSendersAlive ==
    \/ ~PoolGone
    \/ \E w \in WorkerIds : wpc[w] \in {"lock", "recv", "exec"}

\* a recv that hands the message over and leaves it on the channel
DequeuePeek(ch) == ch

\* what rx.recv() leaves on the channel: the message is moved out of it
Dequeue(ch) == Tail(ch)

\* a recv after which the guard is kept through the match
WorkerRecvKeepsLock(w) ==
    /\ wpc[w] = "recv"
    /\ rxLock = w
    /\ IF task_channel # <<>>
       THEN LET msg == Head(task_channel) IN
            /\ task_channel' = Dequeue(task_channel)
            /\ rxLock' = w
            /\ IF msg.type = "Task"
               THEN /\ wpc' = [wpc EXCEPT ![w] = "exec"]
                    /\ wtask' = [wtask EXCEPT ![w] = msg.id]
                    /\ dequeued' = [dequeued EXCEPT ![msg.id] = @ + 1]
               ELSE /\ wpc' = [wpc EXCEPT ![w] = "exited"]
                    /\ UNCHANGED <<wtask, dequeued>>
       ELSE \* Err(RecvError): empty and disconnected
            /\ ~TaskSendersAlive
            /\ rxLock' = NoWorker
            /\ wpc' = [wpc EXCEPT ![w] = "exited"]
            /\ UNCHANGED <<task_channel, wtask, dequeued>>
    /\ UNCHANGED <<poolPc, requested, num_workers, workers, result_channel,
                   stats, statsFirst, sdSent, joined, callerVars, emitted, queuedAtShutdown,
                   dispVars, fnVars, globalVars>>

\* rx.recv() returns and the guard is dropped (worker.rs:51-52), then the
\* match on the message (worker.rs:54-57, 79-87)
WorkerRecv(w) ==
    /\ wpc[w] = "recv"
    /\ rxLock = w
    /\ IF task_channel # <<>>
       THEN LET msg == Head(task_channel) IN
            /\ task_channel' = Dequeue(task_channel)
            /\ rxLock' = NoWorker
            /\ IF msg.type = "Task"
               THEN /\ wpc' = [wpc EXCEPT ![w] = "exec"]
                    /\ wtask' = [wtask EXCEPT ![w] = msg.id]
                    /\ dequeued' = [dequeued EXCEPT ![msg.id] = @ + 1]
               ELSE /\ wpc' = [wpc EXCEPT ![w] = "exited"]
                    /\ UNCHANGED <<wtask, dequeued>>
       ELSE \* Err(RecvError): empty and disconnected
            /\ ~TaskSendersAlive
            /\ rxLock' = NoWorker
            /\ wpc' = [wpc EXCEPT ![w] = "exited"]
            /\ UNCHANGED <<task_channel, wtask, dequeued>>
    /\ UNCHANGED <<poolPc, requested, num_workers, workers, result_channel,
                   stats, statsFirst, sdSent, joined, callerVars, emitted, queuedAtShutdown,
                   dispVars, fnVars, globalVars>>

\* an error arm that drops the task's id
ProcessTaskLosesId(id, out, d) ==
    IF out = "ok" THEN Success(id, d) ELSE Failure(NoTask, TRUE)

\* an error arm that marks the failure unrecoverable
ProcessTaskUnrecoverable(id, out, d) ==
    IF out = "ok" THEN Success(id, d) ELSE Failure(id, FALSE)

\* Worker::process_task (worker.rs:94-109) followed by the duration stamp
\* (worker.rs:58-72): out is the renderer's Ok/Err, d the measured duration
ProcessTask(id, out, d) ==
    IF out = "ok" THEN Success(id, d) ELSE Failure(id, TRUE)

\* what a call of the renderer, crate::transform::markdown_to_html, can
\* return: Ok(html) or Err(e)
RendererReturns == {"ok", "err"}

\* a worker that ends after its first task
WorkerRenderOnce(w) ==
    /\ wpc[w] = "exec"
    /\ \E out \in RendererReturns, d \in Durations :
        LET id == wtask[w]
            result == ProcessTask(id, out, d) IN
        /\ result_channel' = Append(result_channel, result)
        /\ emitted' = [emitted EXCEPT ![id] = @ + 1]
    /\ wpc' = [wpc EXCEPT ![w] = "exited"]
    /\ wtask' = [wtask EXCEPT ![w] = NoTask]
    /\ UNCHANGED <<poolPc, requested, num_workers, workers, task_channel,
                   rxLock, stats, statsFirst, sdSent, joined, callerVars, dequeued,
                   queuedAtShutdown, dispVars, fnVars, globalVars>>

\* the renderer returns and the result is sent (worker.rs:56-78): the loop
\* goes on, or breaks when the send fails (worker.rs:74-77)
WorkerRender(w) ==
    /\ wpc[w] = "exec"
    /\ IF ResultReceiverAlive
       THEN /\ \E out \in RendererReturns, d \in Durations :
                LET id == wtask[w]
                    result == ProcessTask(id, out, d) IN
                /\ result_channel' = Append(result_channel, result)
                /\ emitted' = [emitted EXCEPT ![id] = @ + 1]
            /\ wpc' = [wpc EXCEPT ![w] = "lock"]
       ELSE /\ wpc' = [wpc EXCEPT ![w] = "exited"]
            /\ UNCHANGED <<result_channel, emitted>>
    /\ wtask' = [wtask EXCEPT ![w] = NoTask]
    /\ UNCHANGED <<poolPc, requested, num_workers, workers, task_channel,
                   rxLock, stats, statsFirst, sdSent, joined, callerVars, dequeued,
                   queuedAtShutdown, dispVars, fnVars, globalVars>>

\* a crash that is reported as a Failure before the thread ends
WorkerPanicReported(w) ==
    /\ wpc[w] = "exec"
    /\ wpc' = [wpc EXCEPT ![w] = "panicked"]
    /\ result_channel' = Append(result_channel, Failure(wtask[w], FALSE))
    /\ emitted' = [emitted EXCEPT ![wtask[w]] = @ + 1]
    /\ wtask' = [wtask EXCEPT ![w] = NoTask]
    /\ UNCHANGED <<poolPc, requested, num_workers, workers, task_channel,
                   rxLock, stats, statsFirst, sdSent, joined, callerVars, dequeued,
                   queuedAtShutdown, dispVars, fnVars, globalVars>>

\* the renderer panics: the thread unwinds out of Worker::run (worker.rs:57)
WorkerPanic(w) ==
    /\ wpc[w] = "exec"
    /\ wpc' = [wpc EXCEPT ![w] = "panicked"]
    /\ wtask' = [wtask EXCEPT ![w] = NoTask]
    /\ UNCHANGED <<poolVars, callerVars, histVars, dispVars, fnVars, globalVars>>

\* ------------------------------------------------------ the pool's API
\* ids lo..lo+k-1 as a sequence: the tasks of one call
FreshIds(lo, k) == [i \in 1..k |-> lo + i - 1]

\* result_receiver.recv() fails only when the channel is empty and every
\* Sender has been dropped (pool.rs:67-69, 91)
ResultDisconnected == result_channel = <<>> /\ ~ResultSendersAlive

\* ThreadPool::process up to the send (pool.rs:60-64)
ProcessCall(c) ==
    /\ poolPc = "running"
    /\ callers[c].pc = "idle"
    /\ nextId <= MaxTasks
    /\ HasRoom(task_channel)
    /\ task_channel' = Append(task_channel, TaskMsg(nextId))
    /\ callers' = [callers EXCEPT ![c] =
            [IdleCaller EXCEPT !.pc = "recv", !.op = "process",
                               !.submitted = <<nextId>>, !.task_count = 1]]
    /\ nextId' = nextId + 1
    /\ UNCHANGED <<poolPc, requested, num_workers, workers, result_channel, rxLock,
                   stats, statsFirst, sdSent, joined, workerVars, histVars, dispVars, fnVars, globalVars>>

\* a process() that picks its own task's result out of the channel
ProcessTakeOwn(c) ==
    IF \E i \in 1..Len(result_channel) : result_channel[i].id = callers[c].submitted[1]
    THEN result_channel[CHOOSE i \in 1..Len(result_channel) :
                            result_channel[i].id = callers[c].submitted[1]]
    ELSE Head(result_channel)

\* the result process() hands back: the next one on the shared channel
ProcessTake(c) == Head(result_channel)

\* ThreadPool::process: the blocking recv returns (pool.rs:67-69)
ProcessRecv(c) ==
    /\ callers[c].pc = "recv"
    /\ callers[c].op = "process"
    /\ IF result_channel # <<>>
       THEN /\ callers' = [callers EXCEPT ![c].pc = "done",
                                          ![c].received = 1,
                                          ![c].results = <<ProcessTake(c)>>]
            /\ result_channel' = Tail(result_channel)
       ELSE /\ ResultDisconnected
            /\ callers' = [callers EXCEPT ![c].pc = "done", ![c].received = 1]
            /\ UNCHANGED result_channel
    /\ UNCHANGED <<poolPc, requested, num_workers, workers, task_channel, rxLock,
                   stats, statsFirst, sdSent, joined, workerVars, nextId, histVars, dispVars, fnVars, globalVars>>

\* a collect loop that stops one result short
BatchTaskCountShort(tasks) == Len(tasks) - 1

\* the number of recv iterations of process_batch (pool.rs:74, 90)
BatchTaskCount(tasks) == Len(tasks)

\* ThreadPool::process_batch: the split (pool.rs:73-78); an empty batch has
\* nothing to send and nothing to collect, and returns at once
BatchCall(c) ==
    /\ poolPc = "running"
    /\ callers[c].pc = "idle"
    /\ \E k \in 0..MaxTasks :
        /\ nextId + k - 1 <= MaxTasks
        /\ LET tasks == FreshIds(nextId, k) IN
            callers' = [callers EXCEPT ![c] =
                [IdleCaller EXCEPT !.pc = IF k = 0 THEN "done" ELSE "send",
                                   !.op = "batch",
                                   !.submitted = tasks,
                                   !.tosend = SendOrder(tasks, num_workers),
                                   !.task_count = BatchTaskCount(tasks)]]
        /\ nextId' = nextId + k
    /\ UNCHANGED <<poolVars, workerVars, histVars, dispVars, fnVars, globalVars>>

\* one task_sender.send of the send loop (pool.rs:81-87)
BatchSend(c) ==
    /\ callers[c].pc = "send"
    /\ callers[c].tosend # <<>>
    /\ HasRoom(task_channel)
    /\ task_channel' = Append(task_channel, TaskMsg(Head(callers[c].tosend)))
    /\ callers' = [callers EXCEPT
            ![c].tosend = Tail(@),
            ![c].pc = IF Len(callers[c].tosend) = 1
                      THEN (IF callers[c].task_count = 0 THEN "done" ELSE "collect")
                      ELSE "send"]
    /\ UNCHANGED <<poolPc, requested, num_workers, workers, result_channel, rxLock,
                   stats, statsFirst, sdSent, joined, workerVars, nextId, histVars, dispVars, fnVars, globalVars>>

\* a credit that goes to the record picked by the task's id
CreditResultByTask(st, first, r) ==
    IF first \notin DOMAIN st THEN st
    ELSE LET k == r.id % Cardinality(DOMAIN st) IN
         IF is_success(r)
         THEN [st EXCEPT ![k] = record_success(@, r.duration_ms)]
         ELSE [st EXCEPT ![k] = record_failure(@)]

\* the stats update of process_batch for one received result (pool.rs:93-105):
\* the credit goes to the first entry the map's iterator yields, if any
CreditResult(st, first, r) ==
    IF first \notin DOMAIN st THEN st
    ELSE IF is_success(r)
         THEN [st EXCEPT ![first] = record_success(@, r.duration_ms)]
         ELSE [st EXCEPT ![first] = record_failure(@)]

\* one iteration of the collect loop (pool.rs:90-112); after the last one
\* the results are returned (pool.rs:114)
BatchRecv(c) ==
    /\ callers[c].pc = "collect"
    /\ callers[c].received < callers[c].task_count
    /\ LET last == callers[c].received + 1 = callers[c].task_count
           pcn == IF last THEN "done" ELSE "collect" IN
       IF result_channel # <<>>
       THEN LET result == Head(result_channel) IN
            /\ result_channel' = Tail(result_channel)
            /\ stats' = CreditResult(stats, statsFirst, result)
            /\ callers' = [callers EXCEPT ![c].pc = pcn,
                                          ![c].received = @ + 1,
                                          ![c].results = Append(@, result)]
       ELSE /\ ResultDisconnected
            /\ callers' = [callers EXCEPT ![c].pc = pcn, ![c].received = @ + 1]
            /\ UNCHANGED <<result_channel, stats>>
    /\ UNCHANGED <<poolPc, requested, num_workers, workers, task_channel, rxLock,
                   statsFirst, sdSent, joined, workerVars, nextId, histVars, dispVars, fnVars, globalVars>>

\* the sum of one counter over the stats records (pool.rs:141-146)
RECURSIVE SumStats(_, _, _)
SumStats(st, keys, field) ==
    IF keys = {} THEN 0
    ELSE LET k == CHOOSE x \in keys : TRUE IN
         st[k][field] + SumStats(st, keys \ {k}, field)

\* a view that reports the error count as the task count
StatsViewErrorsAsTasks(st, n) ==
    PoolStats(n,
              SumStats(st, DOMAIN st, "errors"),
              SumStats(st, DOMAIN st, "total_duration_ms"),
              SumStats(st, DOMAIN st, "errors"))

\* ThreadPool::stats (pool.rs:136-159)
StatsView(st, n) ==
    PoolStats(n,
              SumStats(st, DOMAIN st, "tasks_processed"),
              SumStats(st, DOMAIN st, "total_duration_ms"),
              SumStats(st, DOMAIN st, "errors"))

StatsCall(c) ==
    /\ poolPc = "running"
    /\ callers[c].pc = "idle"
    /\ callers' = [callers EXCEPT ![c] =
            [IdleCaller EXCEPT !.pc = "done", !.op = "stats",
                               !.view = StatsView(stats, num_workers)]]
    /\ UNCHANGED <<poolVars, workerVars, nextId, histVars, dispVars, fnVars, globalVars>>

\* the caller takes the returned value and is free to call again
CallReturn(c) ==
    /\ callers[c].pc = "done"
    /\ callers' = [callers EXCEPT ![c] = IdleCaller]
    /\ UNCHANGED <<poolVars, workerVars, nextId, histVars, dispVars, fnVars, globalVars>>

\* ------------------------------------------------ ThreadPool::shutdown
\* the ids of the tasks waiting in the queue
QueuedTasks(ch) == {ch[i].id : i \in {j \in 1..Len(ch) : ch[j].type = "Task"}}

\* a shutdown that could be called again on a pool already shut down
ShutdownCallAgain ==
    /\ poolPc \in {"running", "terminated"}
    /\ \A c \in Callers : callers[c].pc = "idle"
    /\ poolPc' = "shutdown_send"
    /\ queuedAtShutdown' = QueuedTasks(task_channel)
    /\ UNCHANGED <<requested, num_workers, workers, task_channel, result_channel,
                   rxLock, stats, statsFirst, sdSent, joined, workerVars,
                   callerVars, dequeued, emitted, dispVars, fnVars, globalVars>>

\* shutdown(self) takes the pool by value (pool.rs:162): no borrow of it is
\* alive, so no caller is inside process or process_batch
ShutdownCall ==
    /\ poolPc = "running"
    /\ \A c \in Callers : callers[c].pc = "idle"
    /\ poolPc' = "shutdown_send"
    /\ queuedAtShutdown' = QueuedTasks(task_channel)
    /\ UNCHANGED <<requested, num_workers, workers, task_channel, result_channel,
                   rxLock, stats, statsFirst, sdSent, joined, workerVars,
                   callerVars, dequeued, emitted, dispVars, fnVars, globalVars>>

\* shutdown_global_pool (mod.rs:113-119): the pool is taken out of the
\* static and shut down, whatever the holders of the &'static reference
\* that global_pool() handed out are doing
ShutdownGlobalPool ==
    /\ poolPc = "running"
    /\ poolPc' = "shutdown_send"
    /\ queuedAtShutdown' = QueuedTasks(task_channel)
    /\ UNCHANGED <<requested, num_workers, workers, task_channel, result_channel,
                   rxLock, stats, statsFirst, sdSent, joined, workerVars,
                   callerVars, dequeued, emitted, dispVars, fnVars, globalVars>>

\* a send loop that is one message short
ShutdownCountShort == IF num_workers > 0 THEN num_workers - 1 ELSE 0

\* the number of Shutdown messages shutdown() sends (pool.rs:166)
ShutdownCount == num_workers

\* a send loop whose Shutdown messages go to the front of the queue
ShutdownSendUrgent ==
    /\ poolPc = "shutdown_send"
    /\ IF sdSent < ShutdownCount
       THEN /\ task_channel' = <<ShutdownMsg>> \o task_channel
            /\ sdSent' = sdSent + 1
            /\ UNCHANGED poolPc
       ELSE /\ poolPc' = "shutdown_join"
            /\ UNCHANGED <<task_channel, sdSent>>
    /\ UNCHANGED <<requested, num_workers, workers, result_channel, rxLock, stats,
                   statsFirst, joined, workerVars, callerVars, histVars, dispVars, fnVars, globalVars>>

\* one iteration of the send loop (pool.rs:166-168); after the last one the
\* join loop starts
ShutdownSend ==
    /\ poolPc = "shutdown_send"
    /\ IF sdSent < ShutdownCount
       THEN /\ HasRoom(task_channel)
            /\ task_channel' = Append(task_channel, ShutdownMsg)
            /\ sdSent' = sdSent + 1
            /\ UNCHANGED poolPc
       ELSE /\ poolPc' = "shutdown_join"
            /\ UNCHANGED <<task_channel, sdSent>>
    /\ UNCHANGED <<requested, num_workers, workers, result_channel, rxLock, stats,
                   statsFirst, joined, workerVars, callerVars, histVars, dispVars, fnVars, globalVars>>

\* thread.join() returns once the thread has ended, normally or by a panic
\* (worker.rs:117-123)
Joinable(w) == wpc[w] \in {"exited", "panicked"}

\* one iteration of the join loop (pool.rs:171-175); after the last one
\* shutdown returns and the pool is dropped (pool.rs:177-178)
ShutdownJoin ==
    /\ poolPc = "shutdown_join"
    /\ IF joined < Len(workers)
       THEN /\ Joinable(workers[joined + 1])
            /\ joined' = joined + 1
            /\ UNCHANGED poolPc
       ELSE /\ poolPc' = "terminated"
            /\ UNCHANGED joined
    /\ UNCHANGED <<requested, num_workers, workers, task_channel, result_channel,
                   rxLock, stats, statsFirst, sdSent, workerVars, callerVars, histVars, dispVars, fnVars, globalVars>>

\* the owner lets the pool go out of scope without calling shutdown: its
\* fields are dropped (ThreadPool has no Drop impl, pool.rs:13-21) and the
\* worker threads are left detached
PoolDrop ==
    /\ poolPc = "running"
    /\ \A c \in Callers : callers[c].pc = "idle"
    /\ poolPc' = "dropped"
    /\ UNCHANGED <<requested, num_workers, workers, task_channel, result_channel,
                   rxLock, stats, statsFirst, sdSent, joined, workerVars,
                   callerVars, histVars, dispVars, fnVars, globalVars>>

\* ------------------------------------------------------ the dispatcher
\* the loop takes the next input line (main.rs:40)
Reads(f) ==
    /\ dpc = "loop"
    /\ linesRead < MaxLines
    /\ linesRead' = linesRead + 1
    /\ line' = f

\* a line that cannot be read, or a blank one: continue (main.rs:41-51)
SkipLine ==
    \E f \in Lines :
        /\ Reads(f)
        /\ f.kind \in {"unreadable", "blank"}
        /\ UNCHANGED <<dpc, output>>
        /\ UNCHANGED <<poolVars, workerVars, callerVars, histVars, fnVars, globalVars>>

\* the line does not decode: one parse-error frame, continue (main.rs:56-65)
ParseFailure ==
    \E f \in Lines :
        /\ Reads(f)
        /\ f.kind \notin {"unreadable", "blank"}
        /\ Decode(f) = "error"
        /\ output' = Append(output, create_parse_error)
        /\ UNCHANGED dpc
        /\ UNCHANGED <<poolVars, workerVars, callerVars, histVars, fnVars, globalVars>>

\* a request other than shutdown: its response is written (main.rs:69-73)
Request ==
    \E f \in Lines :
        /\ Reads(f)
        /\ f.kind \notin {"unreadable", "blank"}
        /\ Decode(f) = "request"
        /\ f.method # "shutdown"
        /\ output' = Append(output, handle_request(f))
        /\ UNCHANGED dpc
        /\ UNCHANGED <<poolVars, workerVars, callerVars, histVars, fnVars, globalVars>>

\* a shutdown that answers like any other method and goes on
ShutdownRequestAnswered ==
    \E f \in Lines :
        /\ Reads(f)
        /\ f.kind \notin {"unreadable", "blank"}
        /\ Decode(f) = "request"
        /\ f.method = "shutdown"
        /\ output' = Append(output, create_response(f.id, "shutdown"))
        /\ UNCHANGED dpc
        /\ UNCHANGED <<poolVars, workerVars, callerVars, histVars, fnVars, globalVars>>

\* a shutdown request: std::process::exit(0) inside handle_request
\* (main.rs:87-90), before anything is written
ShutdownRequest ==
    \E f \in Lines :
        /\ Reads(f)
        /\ f.kind \notin {"unreadable", "blank"}
        /\ Decode(f) = "request"
        /\ f.method = "shutdown"
        /\ dpc' = "exited"
        /\ UNCHANGED output
        /\ UNCHANGED <<poolVars, workerVars, callerVars, histVars, fnVars, globalVars>>

\* a notification with an unknown method answered with an error frame
NotificationAnswered ==
    \E f \in Lines :
        /\ Reads(f)
        /\ f.kind \notin {"unreadable", "blank"}
        /\ Decode(f) = "notification"
        /\ output' = IF f.method = "log" THEN output
                      ELSE Append(output, create_method_not_found(f.id))
        /\ UNCHANGED dpc
        /\ UNCHANGED <<poolVars, workerVars, callerVars, histVars, fnVars, globalVars>>

\* a notification: handle_notification logs and writes nothing
\* (main.rs:74-76, 98-109)
Notification ==
    \E f \in Lines :
        /\ Reads(f)
        /\ f.kind \notin {"unreadable", "blank"}
        /\ Decode(f) = "notification"
        /\ UNCHANGED <<dpc, output>>
        /\ UNCHANGED <<poolVars, workerVars, callerVars, histVars, fnVars, globalVars>>

\* stdin is at its end: the loop is left and main returns (main.rs:78-81)
EndOfInput ==
    /\ dpc = "loop"
    /\ dpc' = "eof"
    /\ UNCHANGED <<linesRead, line, output>>
    /\ UNCHANGED <<poolVars, workerVars, callerVars, histVars, fnVars, globalVars>>

\* ----------------------------------------------------------- normalize
\* the characters a content is made of: the byte-order marker U+FEFF, CR, LF
\* and any other character
Chars == {"BOM", "CR", "LF", "x"}

\* the UTF-8 length of U+FEFF in bytes, the offset of content[3..]
BomLen == 3

\* len_utf8 of a character
Utf8Len(ch) == IF ch = "BOM" THEN BomLen ELSE 1

RECURSIVE SeqsUpTo(_, _)
SeqsUpTo(S, n) ==
    IF n = 0 THEN {<<>>}
    ELSE LET shorter == SeqsUpTo(S, n - 1) IN
         shorter \cup {Append(s, x) : s \in {t \in shorter : Len(t) = n - 1}, x \in S}

Contents == SeqsUpTo(Chars, MaxContent)

\* a flag member of the params: absent, true or false
FlagValues == {Missing, "true", "false"}

\* the params of a normalize request that deserialize
NormalizeParams ==
    {[fn |-> "normalize", content |-> c, remove_bom |-> rb, normalize_lf |-> lf] :
        c \in Contents, rb \in FlagValues, lf \in FlagValues}

\* default_true (handlers.rs:40-42)
default_true == TRUE

\* NormalizeRequest (handlers.rs:31-38): remove_bom has serde's default
\* (false), normalize_lf has default_true
NormalizeRequest(p) ==
    [content |-> p.content,
     remove_bom |-> IF p.remove_bom = Missing THEN FALSE ELSE p.remove_bom = "true",
     normalize_lf |-> IF p.normalize_lf = Missing THEN default_true
                      ELSE p.normalize_lf = "true"]

\* content.starts_with('\u{FEFF}') (handlers.rs:254)
StartsWithBom(s) == Len(s) > 0 /\ Head(s) = "BOM"

\* content[n..]: the string from byte offset n on (handlers.rs:255)
RECURSIVE SliceFrom(_, _)
SliceFrom(s, n) ==
    IF n <= 0 \/ Len(s) = 0 THEN s
    ELSE SliceFrom(Tail(s), n - Utf8Len(Head(s)))

\* content.contains("\r\n") (handlers.rs:260)
ContainsCrLf(s) == \E i \in 1..(Len(s) - 1) : s[i] = "CR" /\ s[i + 1] = "LF"

\* a replace that drops every CR, paired with an LF or not
RECURSIVE ReplaceEveryCr(_)
ReplaceEveryCr(s) ==
    IF Len(s) = 0 THEN <<>>
    ELSE IF Len(s) >= 2 /\ s[1] = "CR" /\ s[2] = "LF"
         THEN <<"LF">> \o ReplaceEveryCr(SubSeq(s, 3, Len(s)))
    ELSE IF s[1] = "CR" THEN ReplaceEveryCr(Tail(s))
    ELSE <<s[1]>> \o ReplaceEveryCr(Tail(s))

\* content.replace("\r\n", "\n") (handlers.rs:261): the matches are found
\* left to right and do not overlap
RECURSIVE ReplaceCrLf(_)
ReplaceCrLf(s) ==
    IF Len(s) = 0 THEN <<>>
    ELSE IF Len(s) >= 2 /\ s[1] = "CR" /\ s[2] = "LF"
         THEN <<"LF">> \o ReplaceCrLf(SubSeq(s, 3, Len(s)))
    ELSE <<s[1]>> \o ReplaceCrLf(Tail(s))

\* a changed flag that follows the request's flags, not what was done
handle_normalize_changed_by_flag(p) ==
    LET req == NormalizeRequest(p)
        c1 == IF req.remove_bom /\ StartsWithBom(req.content)
              THEN SliceFrom(req.content, BomLen) ELSE req.content
        c2 == IF req.normalize_lf /\ ContainsCrLf(c1) THEN ReplaceCrLf(c1) ELSE c1
    IN [fn |-> "normalize", content |-> c2,
        changed |-> req.remove_bom \/ (req.normalize_lf /\ ContainsCrLf(c1))]

\* handle_normalize (handlers.rs:250-268) on params that deserialize: the
\* NormalizeResponse
handle_normalize(p) ==
    LET req == NormalizeRequest(p)
        bom == req.remove_bom /\ StartsWithBom(req.content)
        c1 == IF bom THEN SliceFrom(req.content, BomLen) ELSE req.content
        lf == req.normalize_lf /\ ContainsCrLf(c1)
        c2 == IF lf THEN ReplaceCrLf(c1) ELSE c1
    IN [fn |-> "normalize", content |-> c2, changed |-> bom \/ lf]

\* one normalize call: the handler runs on its params and returns
NormalizeCall ==
    /\ fnPc = "normalize"
    /\ fnRet' = handle_normalize(fnArg)
    /\ fnPc' = "returned"
    /\ UNCHANGED <<fnArg, poolVars, workerVars, callerVars, histVars, dispVars,
                   globalVars>>

\* ------------------------------------------------------- computeDigest
\* the value of a path byte: String's Ord compares the UTF-8 bytes
ByteOf(ch) == IF ch = "B" THEN 66 ELSE 97

\* the paths of the records: "B", "a" and "aB"
Paths == {<<"B">>, <<"a">>, <<"a", "B">>}
Sizes == {1, 10}
Mtimes == {0, 2}

\* FileInfo (handlers.rs:55-60)
FileInfo(p, sz, mt) == [path |-> p, size |-> sz, mtime |-> mt]
FileInfos == {FileInfo(p, sz, mt) : p \in Paths, sz \in Sizes, mt \in Mtimes}

\* the params of a computeDigest request that deserialize
DigestParams == {[fn |-> "computeDigest", files |-> fs] : fs \in SeqsUpTo(FileInfos, MaxFiles)}

\* a.path.cmp(&b.path) = Less (handlers.rs:286): lexicographic on the bytes,
\* a proper prefix first
RECURSIVE PathLess(_, _)
PathLess(p, q) ==
    IF Len(q) = 0 THEN FALSE
    ELSE IF Len(p) = 0 THEN TRUE
    ELSE IF ByteOf(Head(p)) # ByteOf(Head(q)) THEN ByteOf(Head(p)) < ByteOf(Head(q))
    ELSE PathLess(Tail(p), Tail(q))

\* the comparator of files.sort_by (handlers.rs:286): the path, nothing else
SortLess(a, b) == PathLess(a.path, b.path)

\* a stable sort's insertion of x: after every element that is not greater
RECURSIVE InsertSorted(_, _)
InsertSorted(x, sorted) ==
    IF Len(sorted) = 0 THEN <<x>>
    ELSE IF SortLess(x, Head(sorted)) THEN <<x>> \o sorted
    ELSE <<Head(sorted)>> \o InsertSorted(x, Tail(sorted))

\* a sort that drops a record whose path is already there
RECURSIVE SortDedup(_)
SortDedup(files) ==
    IF Len(files) = 0 THEN <<>>
    ELSE LET front == SortDedup(SubSeq(files, 1, Len(files) - 1))
             x == files[Len(files)] IN
         IF \E i \in 1..Len(front) : front[i].path = x.path THEN front
         ELSE InsertSorted(x, front)

\* files.sort_by(..) (handlers.rs:285-286): slice::sort_by is stable, records
\* that compare equal keep the order they came in
RECURSIVE SortByPath(_)
SortByPath(files) ==
    IF Len(files) = 0 THEN <<>>
    ELSE InsertSorted(files[Len(files)], SortByPath(SubSeq(files, 1, Len(files) - 1)))

\* Display of a u64: its decimal digits
DigitChars == <<"0", "1", "2", "3", "4", "5", "6", "7", "8", "9">>
RECURSIVE Decimal(_)
Decimal(n) ==
    IF n < 10 THEN <<DigitChars[n + 1]>>
    ELSE Decimal(n \div 10) \o <<DigitChars[(n % 10) + 1]>>

\* format!("{}|{}|{}\n", file.path, file.size, file.mtime) (handlers.rs:291)
FormatLine(f) ==
    f.path \o <<"|">> \o Decimal(f.size) \o <<"|">> \o Decimal(f.mtime) \o <<"\n">>

\* everything hasher.update is given, in order (handlers.rs:289-292)
HashedBytes(files) ==
    LET sorted == SortByPath(files) IN
    Flatten([i \in 1..Len(sorted) |-> FormatLine(sorted[i])])

\* format!("{:x}", Sha256 of the bytes) (handlers.rs:289, 294): the hash is
\* kept as a function of its input that has no collisions
Sha256Hex(bytes) == [sha256 |-> bytes]

\* handle_compute_digest (handlers.rs:284-296) on params that deserialize:
\* the ComputeDigestResponse
handle_compute_digest(p) ==
    [fn |-> "computeDigest", digest |-> Sha256Hex(HashedBytes(p.files))]

\* one computeDigest call
DigestCall ==
    /\ fnPc = "computeDigest"
    /\ fnRet' = handle_compute_digest(fnArg)
    /\ fnPc' = "returned"
    /\ UNCHANGED <<fnArg, poolVars, workerVars, callerVars, histVars, dispVars,
                   globalVars>>

\* ------------------------------------------------------ TaskBatch::split
\* a batch of len tasks and the num_chunks it is split into
SplitArgs ==
    {[fn |-> "split", tasks |-> FreshIds(1, len), num_chunks |-> n] :
        len \in 0..MaxBatchLen, n \in 0..MaxChunks}

\* one TaskBatch::split call (task.rs:113-125)
SplitCall ==
    /\ fnPc = "split"
    /\ fnRet' = [fn |-> "split", chunks |-> Split(fnArg.tasks, fnArg.num_chunks)]
    /\ fnPc' = "returned"
    /\ UNCHANGED <<fnArg, poolVars, workerVars, callerVars, histVars, dispVars,
                   globalVars>>

\* ------------------------------------------- TransformTask::estimated_cost
\* the characters of a task's content: the backtick (TICK), another
\* one-byte character, and the three-byte U+FEFF
CostChars == {"TICK", "x", "BOM"}

\* the contents of test_task_cost_estimation (task.rs:145-157)
HelloWorld == <<"H", "e", "l", "l", "o", " ", "w", "o", "r", "l", "d">>
FencedRust == <<"TICK", "TICK", "TICK", "r", "u", "s", "t", "\n",
                "c", "o", "d", "e", "\n", "TICK", "TICK", "TICK">>

CostContents == SeqsUpTo(CostChars, MaxCostLen) \cup {HelloWorld, FencedRust}

CostArgs == {[fn |-> "estimated_cost", content |-> c] : c \in CostContents}

\* a length in characters, not in bytes
RECURSIVE CharLen(_)
CharLen(s) == IF Len(s) = 0 THEN 0 ELSE 1 + CharLen(Tail(s))

\* String::len (task.rs:67): the length in bytes
RECURSIVE ByteLen(_)
ByteLen(s) == IF Len(s) = 0 THEN 0 ELSE Utf8Len(Head(s)) + ByteLen(Tail(s))

\* content.contains("```") (task.rs:68)
ContainsFence(s) ==
    \E i \in 1..(Len(s) - 2) : s[i] = "TICK" /\ s[i + 1] = "TICK" /\ s[i + 2] = "TICK"

\* a cost that counts characters
estimated_cost_in_chars(content) ==
    CharLen(content) * (IF ContainsFence(content) THEN 2 ELSE 1)

\* TransformTask::estimated_cost (task.rs:65-74)
estimated_cost(content) ==
    LET size_cost == ByteLen(content)
        complexity_multiplier == IF ContainsFence(content) THEN 2 ELSE 1
    IN size_cost * complexity_multiplier

\* one estimated_cost call
CostCall ==
    /\ fnPc = "estimated_cost"
    /\ fnRet' = [fn |-> "estimated_cost", cost |-> estimated_cost(fnArg.content)]
    /\ fnPc' = "returned"
    /\ UNCHANGED <<fnArg, poolVars, workerVars, callerVars, histVars, dispVars,
                   globalVars>>

\* the contents of the tasks of a batch
BatchContents == {<<>>, <<"x">>, <<"TICK", "TICK", "TICK">>, <<"BOM", "TICK", "TICK", "TICK", "x">>}

BatchNewArgs ==
    {[fn |-> "TaskBatch::new", tasks |-> ts] : ts \in SeqsUpTo(BatchContents, MaxBatchTasks)}

\* tasks.iter().map(|t| t.estimated_cost()).sum() (task.rs:104)
RECURSIVE SumCosts(_)
SumCosts(tasks) ==
    IF Len(tasks) = 0 THEN 0 ELSE estimated_cost(Head(tasks)) + SumCosts(Tail(tasks))

\* TaskBatch::new (task.rs:103-110)
TaskBatchNew(tasks) ==
    [fn |-> "TaskBatch::new", tasks |-> tasks, total_cost |-> SumCosts(tasks)]

\* one TaskBatch::new call
BatchNewCall ==
    /\ fnPc = "TaskBatch::new"
    /\ fnRet' = TaskBatchNew(fnArg.tasks)
    /\ fnPc' = "returned"
    /\ UNCHANGED <<fnArg, poolVars, workerVars, callerVars, histVars, dispVars,
                   globalVars>>

\* --------------------------------------------- the default worker count
\* num_workers: None
NoCount == -1

\* the cap of recommended_workers (mod.rs:42)
DefaultWorkerCap == 8

\* a construction: by ThreadPool::new, by the builder, or as the global
\* pool; the count asked for, if any; what num_cpus::get() and
\* num_cpus::get_physical() report on the machine
WorkerCountArgs ==
    {a \in {[fn |-> "worker_count", path |-> p, num_workers |-> n,
              logical |-> l, physical |-> ph] :
                p \in {"new", "builder", "global"}, n \in {NoCount, 2},
                l \in 1..MaxCpus, ph \in 1..MaxCpus} :
        a.physical <= a.logical}

\* recommended_workers (mod.rs:37-43)
recommended_workers(physical) == IF physical < DefaultWorkerCap THEN physical ELSE DefaultWorkerCap

\* ThreadPool::new(num_workers) (pool.rs:25-26): unwrap_or_else(num_cpus::get)
ThreadPoolNewOpt(opt, logical) == IF opt = NoCount THEN logical ELSE ThreadPoolNew(opt)

\* ThreadPoolBuilder::build (pool.rs:233-235): new(self.num_workers)
BuilderBuildOpt(opt, logical) == ThreadPoolNewOpt(opt, logical)

\* global_pool (mod.rs:98-105): the builder with
\* config.num_workers.unwrap_or_else(recommended_workers)
GlobalPoolWorkers(opt, logical, physical) ==
    BuilderBuildOpt(IF opt = NoCount THEN recommended_workers(physical) ELSE opt, logical)

\* the num_workers of the pool a construction gives
WorkerCount(a) ==
    CASE a.path = "new" -> ThreadPoolNewOpt(a.num_workers, a.logical)
      [] a.path = "builder" -> BuilderBuildOpt(a.num_workers, a.logical)
      [] a.path = "global" -> GlobalPoolWorkers(a.num_workers, a.logical, a.physical)

\* one construction
WorkerCountCall ==
    /\ fnPc = "worker_count"
    /\ fnRet' = [fn |-> "worker_count", count |-> WorkerCount(fnArg)]
    /\ fnPc' = "returned"
    /\ UNCHANGED <<fnArg, poolVars, workerVars, callerVars, histVars, dispVars,
                   globalVars>>

\* ------------------------------------------------- PoolStats accessors
\* the results one pool hands to process_batch over its life: each one a
\* Success with a duration or a recoverable Failure
Outcomes == {Success(NoTask, d) : d \in Durations} \cup {Failure(NoTask, TRUE)}

RateArgs ==
    {[fn |-> "error_rate", results |-> rs] : rs \in SeqsUpTo(Outcomes, MaxOutcomes)}

\* the records of a one-worker pool after process_batch has credited the
\* results in order (pool.rs:93-105)
RECURSIVE CreditAll(_, _, _)
CreditAll(st, first, rs) ==
    IF rs = <<>> THEN st
    ELSE CreditAll(CreditResult(st, first, Head(rs)), first, Tail(rs))

\* PoolStats::throughput (pool.rs:192-198), the f64 quotient kept as the
\* pair <<dividend, divisor>>
throughput(v) ==
    IF v.total_duration_ms > 0
    THEN <<v.total_tasks * 1000, v.total_duration_ms>>
    ELSE <<0, 1>>

\* PoolStats::error_rate (pool.rs:200-206), as a pair likewise
error_rate(v) ==
    IF v.total_tasks > 0
    THEN <<v.total_errors, v.total_tasks>>
    ELSE <<0, 1>>

\* stats() after the batches, then the two accessors on the view
RateCall ==
    /\ fnPc = "error_rate"
    /\ LET st == CreditAll([k \in {0} |-> WorkerStatsDefault], 0, fnArg.results)
           v == StatsView(st, 1) IN
        fnRet' = [fn |-> "error_rate", view |-> v,
                  error_rate |-> error_rate(v), throughput |-> throughput(v)]
    /\ fnPc' = "returned"
    /\ UNCHANGED <<fnArg, poolVars, workerVars, callerVars, histVars, dispVars,
                   globalVars>>

\* ------------------------------------------------------ the global pool
\* what FASTMD_PARALLEL can hold
EnvValues == {Missing, "false", "FALSE", "False", "true", "0"}

\* str::to_lowercase on those values
to_lowercase(val) == IF val \in {"FALSE", "False"} THEN "false" ELSE val

\* ParallelConfig::from_env (mod.rs:67-87): enabled is true by default
\* (mod.rs:57) and false only for a value that lowercases to "false"
from_env(val) ==
    [enabled |-> IF val = Missing THEN TRUE ELSE to_lowercase(val) # "false"]

\* a call_once that runs its closure again whenever there is no pool
GpEnterAgain(t) ==
    /\ gpc[t] = "idle"
    /\ POOL_INIT = "incomplete" \/ (POOL_INIT = "complete" /\ GLOBAL_POOL = "None")
    /\ POOL_INIT' = "running"
    /\ gpc' = [gpc EXCEPT ![t] = "closure"]
    /\ gsaw' = [gsaw EXCEPT ![t] = gdown]
    /\ UNCHANGED <<FASTMD_PARALLEL, GLOBAL_POOL, built, gret, gdown,
                   poolVars, workerVars, callerVars, histVars, dispVars, fnVars>>

\* global_pool(): POOL_INIT.call_once finds the Once not run and this
\* thread runs the closure (mod.rs:97); a thread that finds it running waits
GpEnter(t) ==
    /\ gpc[t] = "idle"
    /\ POOL_INIT = "incomplete"
    /\ POOL_INIT' = "running"
    /\ gpc' = [gpc EXCEPT ![t] = "closure"]
    /\ gsaw' = [gsaw EXCEPT ![t] = gdown]
    /\ UNCHANGED <<FASTMD_PARALLEL, GLOBAL_POOL, built, gret, gdown,
                   poolVars, workerVars, callerVars, histVars, dispVars, fnVars>>

\* the closure (mod.rs:98-106): the pool is built and stored if the
\* configuration enables it
GpClosure(t) ==
    /\ gpc[t] = "closure"
    /\ IF from_env(FASTMD_PARALLEL).enabled
       THEN /\ GLOBAL_POOL' = "Some"
            /\ built' = built + 1
       ELSE UNCHANGED <<GLOBAL_POOL, built>>
    /\ gpc' = [gpc EXCEPT ![t] = "finish"]
    /\ UNCHANGED <<FASTMD_PARALLEL, POOL_INIT, gsaw, gret, gdown,
                   poolVars, workerVars, callerVars, histVars, dispVars, fnVars>>

\* call_once returns: the Once is complete (mod.rs:107)
GpFinish(t) ==
    /\ gpc[t] = "finish"
    /\ POOL_INIT' = "complete"
    /\ gpc' = [gpc EXCEPT ![t] = "read"]
    /\ UNCHANGED <<FASTMD_PARALLEL, GLOBAL_POOL, built, gsaw, gret, gdown,
                   poolVars, workerVars, callerVars, histVars, dispVars, fnVars>>

\* global_pool(): call_once finds the Once complete and returns at once
GpFast(t) ==
    /\ gpc[t] = "idle"
    /\ POOL_INIT = "complete"
    /\ gpc' = [gpc EXCEPT ![t] = "read"]
    /\ gsaw' = [gsaw EXCEPT ![t] = gdown]
    /\ UNCHANGED <<FASTMD_PARALLEL, GLOBAL_POOL, POOL_INIT, built, gret, gdown,
                   poolVars, workerVars, callerVars, histVars, dispVars, fnVars>>

\* GLOBAL_POOL.as_ref() is returned (mod.rs:108)
GpRead(t) ==
    /\ gpc[t] = "read"
    /\ gret' = [gret EXCEPT ![t] = GLOBAL_POOL]
    /\ gpc' = [gpc EXCEPT ![t] = "idle"]
    /\ UNCHANGED <<FASTMD_PARALLEL, GLOBAL_POOL, POOL_INIT, built, gsaw, gdown,
                   poolVars, workerVars, callerVars, histVars, dispVars, fnVars>>

\* the closure has stored its result, or found parallelism disabled
PoolInitDone ==
    \/ POOL_INIT = "complete"
    \/ \E t \in GlobalThreads : gpc[t] = "finish"

\* shutdown_global_pool (mod.rs:113-119): GLOBAL_POOL.take(), and the pool
\* that was there is shut down; the Once is left as it is
ShutdownGlobal(t) ==
    /\ gpc[t] = "idle"
    /\ GLOBAL_POOL' = "None"
    /\ gdown' = IF PoolInitDone \/ gdown = "late" THEN "late" ELSE "early"
    /\ UNCHANGED <<FASTMD_PARALLEL, POOL_INIT, built, gpc, gsaw, gret,
                   poolVars, workerVars, callerVars, histVars, dispVars, fnVars>>

\* ------------------------------------------------------- specifications
WorkerStep(w) ==
    \/ WorkerLock(w)
    \/ WorkerRecv(w)
    \/ WorkerRender(w)
    \/ WorkerPanic(w)

\* a worker whose renderer returns
WorkerStepReturns(w) ==
    \/ WorkerLock(w)
    \/ WorkerRecv(w)
    \/ WorkerRender(w)

CallerStep(c) ==
    \/ ProcessCall(c)
    \/ ProcessRecv(c)
    \/ BatchCall(c)
    \/ BatchSend(c)
    \/ BatchRecv(c)
    \/ StatsCall(c)
    \/ CallReturn(c)

OwnerStep ==
    \/ SpawnWorker
    \/ NewReturn
    \/ ShutdownCall
    \/ ShutdownSend
    \/ ShutdownJoin

\* one caller at a time
Next ==
    \/ OwnerStep
    \/ \E w \in WorkerIds : WorkerStep(w)
    \/ \E c \in SingleCaller : CallerStep(c)

Spec == Init /\ [][Next]_vars

\* process() as one caller runs it
ProcessStep(c) ==
    \/ ProcessCall(c)
    \/ ProcessRecv(c)
    \/ CallReturn(c)

\* two callers running process() on the same pool at the same time
NextConcurrent ==
    \/ OwnerStep
    \/ \E w \in WorkerIds : WorkerStep(w)
    \/ \E c \in Callers : ProcessStep(c)

SpecConcurrent == Init /\ [][NextConcurrent]_vars

\* the dispatcher's read loop
DispatchNext ==
    \/ SkipLine
    \/ ParseFailure
    \/ Request
    \/ ShutdownRequest
    \/ Notification
    \/ EndOfInput

DispatchInit == Init /\ requested = 0

DispatchSpec == DispatchInit /\ [][DispatchNext]_vars

\* the pool's workers eventually take their next step (no renderer stalls),
\* and a shutdown in progress goes on
FairSpec ==
    /\ Init /\ [][Next]_vars
    /\ \A w \in WorkerIds : WF_vars(WorkerStep(w))
    /\ WF_vars(ShutdownSend)
    /\ WF_vars(ShutdownJoin)

\* the global pool: a holder of the &'static reference is sending the
\* tasks of a process_batch call while another thread may call
\* shutdown_global_pool; the renderer returns
GlobalCallerStep(c) ==
    \/ BatchCall(c)
    \/ BatchSend(c)

NextGlobal ==
    \/ SpawnWorker
    \/ NewReturn
    \/ ShutdownGlobalPool
    \/ ShutdownSend
    \/ ShutdownJoin
    \/ \E w \in WorkerIds : WorkerStepReturns(w)
    \/ \E c \in SingleCaller : GlobalCallerStep(c)

\* the global pool is built with the largest worker count of the model
GlobalInit == Init /\ requested = MaxWorkers /\ statsFirst = 0

GlobalPoolSpec == GlobalInit /\ [][NextGlobal]_vars

\* a pool whose owner may also drop it without a shutdown
NextDrop ==
    \/ Next
    \/ PoolDrop

DropSpec == Init /\ [][NextDrop]_vars

\* threads calling global_pool and shutdown_global_pool in any order
GlobalThreadStep(t) ==
    \/ GpEnter(t)
    \/ GpClosure(t)
    \/ GpFinish(t)
    \/ GpFast(t)
    \/ GpRead(t)
    \/ ShutdownGlobal(t)

OnceNext == \E t \in GlobalThreads : GlobalThreadStep(t)

OnceInit ==
    /\ ProgramInit
    /\ requested = 0
    /\ fnPc = "none"
    /\ fnArg = NoCall
    /\ fnRet = NoCall
    /\ GlobalStart
    /\ FASTMD_PARALLEL \in EnvValues

OnceSpec == OnceInit /\ [][OnceNext]_vars

\* the renderer always returns
NextReturns ==
    \/ OwnerStep
    \/ \E w \in WorkerIds : WorkerStepReturns(w)
    \/ \E c \in SingleCaller : CallerStep(c)

\* the renderer always returns, and the workers, a shutdown in progress and
\* a caller inside a call all eventually take their next step when they can
FairReturnSpec ==
    /\ Init /\ [][NextReturns]_vars
    /\ \A w \in WorkerIds : WF_vars(WorkerStepReturns(w))
    /\ WF_vars(ShutdownSend)
    /\ WF_vars(ShutdownJoin)
    /\ \A c \in SingleCaller :
        /\ WF_vars(ProcessRecv(c))
        /\ WF_vars(BatchSend(c))
        /\ WF_vars(BatchRecv(c))

\* one call of a pure function on any argument
FnInit ==
    /\ ProgramInit
    /\ requested = 0
    /\ fnArg \in NormalizeParams \cup DigestParams \cup SplitArgs
                \cup CostArgs \cup BatchNewArgs \cup WorkerCountArgs
                \cup RateArgs
    /\ fnPc = fnArg.fn
    /\ fnRet = NoCall
    /\ GlobalStart
    /\ FASTMD_PARALLEL = Missing

FnNext ==
    \/ NormalizeCall
    \/ DigestCall
    \/ SplitCall
    \/ CostCall
    \/ BatchNewCall
    \/ WorkerCountCall
    \/ RateCall

FnSpec == FnInit /\ [][FnNext]_vars

\* the workers, a shutdown in progress and a caller inside a call all
\* eventually take their next step when they can
FairCallSpec ==
    /\ Init /\ [][Next]_vars
    /\ \A w \in WorkerIds : WF_vars(WorkerStep(w))
    /\ WF_vars(ShutdownSend)
    /\ WF_vars(ShutdownJoin)
    /\ \A c \in SingleCaller :
        /\ WF_vars(ProcessRecv(c))
        /\ WF_vars(BatchSend(c))
        /\ WF_vars(BatchRecv(c))
        /\ WF_vars(CallReturn(c))

\* ------------------------------------------------------------- helpers
Range(s) == {s[i] : i \in 1..Len(s)}
Ids(rs) == {rs[i].id : i \in 1..Len(rs)}
CountIn(s, x) == Cardinality({i \in 1..Len(s) : s[i] = x})
CountId(rs, t) == Cardinality({i \in 1..Len(rs) : rs[i].id = t})
Holders(t) == {w \in WorkerIds : wtask[w] = t}
Live(w) == wpc[w] \in {"lock", "recv", "exec"}
AllResults(c) == result_channel \o callers[c].results

\* ---------------------------------------------------------------- C1
\* C1: with a single caller, a process_batch call that has returned holds
\* exactly as many results as tasks were submitted, and the set of result
\* ids is the set of submitted ids.
C1_BatchReturnsAll ==
    \A c \in SingleCaller :
        (callers[c].pc = "done" /\ callers[c].op = "batch") =>
            /\ Len(callers[c].results) = Len(callers[c].submitted)
            /\ Ids(callers[c].results) = Range(callers[c].submitted)

\* a batch of 3 tasks over 2 workers has returned, every result a Success,
\* and not in submission order
C1_Witness ==
    \E c \in SingleCaller :
        /\ callers[c].pc = "done" /\ callers[c].op = "batch"
        /\ num_workers = 2
        /\ Len(callers[c].submitted) = 3
        /\ \A i \in 1..Len(callers[c].results) : is_success(callers[c].results[i])
        /\ callers[c].results[1].id # callers[c].submitted[1]

\* ---------------------------------------------------------------- C2
\* C2 as stated: every task whose execution is over (dequeued, and no
\* worker holds it any more) has exactly one result emitted for it.
C2_EveryTaskYieldsOneResult ==
    \A t \in TaskIds :
        (dequeued[t] >= 1 /\ Holders(t) = {}) => emitted[t] = 1

\* C2 (amended): a task is on the queue at most once and is never dequeued
\* twice; at most one worker holds it; a worker that finishes it emits
\* exactly one result, carrying the task's id, and nothing else emits one;
\* the only tasks that were executed and have no result are those whose
\* worker panicked in the renderer, one per panicked worker.
C2_AtMostOnce ==
    /\ \A t \in TaskIds :
        /\ CountIn(task_channel, TaskMsg(t)) + dequeued[t] <= 1
        /\ Cardinality(Holders(t)) <= 1
        /\ Holders(t) # {} => (dequeued[t] = 1 /\ emitted[t] = 0)
        /\ emitted[t] <= dequeued[t]
        /\ CountId(result_channel, t)
             + Cardinality({c \in Callers : t \in Ids(callers[c].results)})
             <= emitted[t]
        /\ \A c \in Callers : CountId(callers[c].results, t) <= 1
    /\ Cardinality({t \in TaskIds :
                        dequeued[t] = 1 /\ Holders(t) = {} /\ emitted[t] = 0})
         = Cardinality({w \in WorkerIds : wpc[w] = "panicked"})

\* two workers have each finished a task of the same batch, and both
\* results are with the caller
C2_Witness ==
    /\ num_workers = 2
    /\ \E c \in SingleCaller :
        /\ callers[c].op = "batch"
        /\ Len(callers[c].results) >= 2
        /\ Len(callers[c].submitted) = 3
    /\ \E w \in WorkerIds : wpc[w] = "exec"
    /\ \A t \in TaskIds : dequeued[t] = 1

\* ---------------------------------------------------------------- C3
\* C3: with one caller at a time, the result a process(task) call returns
\* carries the id of the task that call submitted, Success or Failure.
C3_ProcessReturnsOwnId ==
    \A c \in SingleCaller :
        (callers[c].pc = "done" /\ callers[c].op = "process") =>
            /\ Len(callers[c].results) = 1
            /\ callers[c].results[1].id = callers[c].submitted[1]

\* a process() call, made after earlier calls, has returned a Failure
C3_Witness ==
    \E c \in SingleCaller :
        /\ callers[c].pc = "done" /\ callers[c].op = "process"
        /\ callers[c].submitted = <<MaxTasks>>
        /\ Len(callers[c].results) = 1
        /\ ~is_success(callers[c].results[1])

\* ---------------------------------------------------------------- C4
\* C4: with two callers in process() at once, whichever caller's recv
\* returns gets the head of the one shared result channel, whatever task it
\* belongs to (so a caller can be handed the other caller's result).
C4_SharedChannelHead ==
    [][\A c \in Callers :
        (callers[c].pc = "recv" /\ callers'[c].pc = "done") =>
            /\ result_channel # <<>>
            /\ callers'[c].results = <<Head(result_channel)>>
            /\ result_channel' = Tail(result_channel)]_vars

\* a process(t) call has returned the result of the other caller's task
C4_CrossDelivery ==
    \E c \in Callers, o \in Callers :
        /\ c # o
        /\ callers[c].pc = "done" /\ callers[c].op = "process"
        /\ callers[o].op = "process"
        /\ callers[c].results[1].id # callers[c].submitted[1]
        /\ callers[c].results[1].id = callers[o].submitted[1]

\* ---------------------------------------------------------------- C5
ShutdownsQueued == CountIn(task_channel, ShutdownMsg)
Exited == {w \in WorkerIds : wpc[w] = "exited"}

C5_Counts ==
    /\ sdSent <= num_workers
    /\ poolPc \in {"shutdown_join", "terminated"} => sdSent = num_workers
    /\ poolPc \in {"new", "running"} => sdSent = 0
    \* every Shutdown message sent is still queued or was consumed by one
    \* worker, which exited on it
    /\ ShutdownsQueued + Cardinality(Exited) = sdSent
    /\ poolPc = "terminated" =>
        /\ \A i \in 1..Len(workers) : Joinable(workers[i])
        /\ \A w \in WorkerIds : ~Live(w)

\* C5: shutdown on a pool of N workers sends exactly N Shutdown messages,
\* each worker that exits consumed exactly one of them, shutdown returns
\* only when every worker thread has ended, and (no worker stalling) a
\* shutdown that has begun returns.
C5_Shutdown ==
    /\ []C5_Counts
    /\ (poolPc = "shutdown_send") ~> (poolPc = "terminated")

\* shutdown of a 2-worker pool has returned after tasks were processed
C5_Witness ==
    /\ poolPc = "terminated"
    /\ num_workers = 2
    /\ sdSent = 2
    /\ Exited = {0, 1}
    /\ nextId > 1

\* ---------------------------------------------------------------- C6
\* Constructing, Running, ShuttingDown, Terminated
Rank(pc) ==
    CASE pc = "new" -> 0
      [] pc = "running" -> 1
      [] pc \in {"shutdown_send", "shutdown_join"} -> 2
      [] pc = "terminated" -> 3

C7_FixedSize ==
    poolPc \in {"running", "shutdown_send", "shutdown_join"} =>
        /\ num_workers = requested
        /\ Len(workers) = requested
        /\ Range(workers) = 0..(requested - 1)
        /\ DOMAIN stats = 0..(requested - 1)

\* a Running 2-worker pool after a batch, a process and a stats call
C7_Witness ==
    /\ poolPc = "running"
    /\ requested = 2
    /\ nextId > MaxTasks
    /\ Len(workers) = 2
    /\ \E c \in SingleCaller : callers[c].pc = "done" /\ callers[c].op = "stats"
                               /\ callers[c].view.total_tasks > 0

\* ---------------------------------------------------------------- C8
\* C8: a step in which a worker emits a Failure emits
\* Failure{id = its task's id, recoverable = true}, puts that worker back
\* at the head of its loop, and leaves every other worker as it was; every
\* Failure anywhere is recoverable.
C8_FailureKeepsWorker ==
    [][/\ \A w \in WorkerIds :
            (/\ wpc[w] = "exec" /\ wpc'[w] # "exec"
             /\ Len(result_channel') = Len(result_channel) + 1
             /\ ~is_success(result_channel'[Len(result_channel')])) =>
                /\ result_channel'[Len(result_channel')] = Failure(wtask[w], TRUE)
                /\ wpc'[w] = "lock"
                /\ \A v \in WorkerIds \ {w} : wpc'[v] = wpc[v]
       /\ \A c \in Callers : \A i \in 1..Len(AllResults(c)) :
            ~is_success(AllResults(c)[i]) => AllResults(c)[i].recoverable]_vars

\* the only worker of a pool emitted a Failure and is executing a later task
C8_Witness ==
    /\ num_workers = 1
    /\ wpc[0] = "exec"
    /\ \E c \in SingleCaller : \E i \in 1..Len(AllResults(c)) :
        /\ ~is_success(AllResults(c)[i])
        /\ AllResults(c)[i].id < wtask[0]

\* ---------------------------------------------------------------- C9
\* a line handed to the decoder that is no envelope: not JSON, or a JSON
\* object without jsonrpc or without method
C9_Undecodable(f) ==
    \/ f.kind = "garbage"
    \/ f.kind = "json" /\ (f.jsonrpc = Missing \/ f.method = Missing)

C9_IsPing(f) ==
    /\ f.kind = "json" /\ f.jsonrpc # Missing /\ f.method = "ping"
    /\ f.id.kind \in {"integer", "string"}

\* C9: an iteration whose line does not decode writes exactly one frame,
\* the error -32700 with the id "null", and stays in the loop; an iteration
\* whose line is a valid ping request writes exactly its response, whatever
\* came before; no iteration writes more than one frame.
C9_ParseErrorThenContinue ==
    [][(linesRead' = linesRead + 1) =>
        /\ C9_Undecodable(line') =>
            /\ output' = Append(output,
                    Response([kind |-> "string", val |-> "null"], "error", -32700, ""))
            /\ dpc' = "loop"
        /\ C9_IsPing(line') =>
            /\ output' = Append(output, Response(line'.id, "result", 0, "pong"))
            /\ dpc' = "loop"
        /\ Len(output') <= Len(output) + 1]_vars

\* an undecodable first line got its parse error and the valid request
\* after it got its response
C9_Witness ==
    /\ linesRead = 2
    /\ dpc = "loop"
    /\ C9_IsPing(line)
    /\ output = <<Response([kind |-> "string", val |-> "null"], "error", -32700, ""),
                 Response(line.id, "result", 0, "pong")>>

\* ---------------------------------------------------------------- C10
\* a frame that decodes (it has jsonrpc and method) and has an id member
C10_DecodesWithId(f) ==
    /\ f.kind = "json" /\ f.jsonrpc # Missing /\ f.method # Missing
    /\ f.id.kind # "absent"

\* C10: an iteration whose frame decodes and carries an id of any JSON
\* value, the method not being shutdown, writes exactly one response frame,
\* and that response carries the frame's id.
C10_IdMeansRequest ==
    [][(linesRead' = linesRead + 1 /\ C10_DecodesWithId(line')
            /\ line'.method # "shutdown") =>
        /\ Len(output') = Len(output) + 1
        /\ output'[Len(output')].id = line'.id]_vars

\* ---------------------------------------------------------------- C11
\* C11: an iteration whose frame is a ping request with id i writes exactly
\* one frame: a success response (a result, no error member) whose id has
\* i's value and i's kind, number or string, and whose result is the pong.
C11_PingEchoesId ==
    [][(linesRead' = linesRead + 1 /\ C9_IsPing(line')) =>
        /\ Len(output') = Len(output) + 1
        /\ SubSeq(output', 1, Len(output)) = output
        /\ LET r == output'[Len(output')] IN
            /\ r.id.kind = line'.id.kind
            /\ r.id.val = line'.id.val
            /\ r.type = "result"
            /\ r.code = 0
            /\ r.body = "pong"]_vars

\* a ping with a number id and then a ping with a string id were answered,
\* each under its own id
C11_Witness ==
    /\ linesRead = 2
    /\ C9_IsPing(line)
    /\ Len(output) = 2
    /\ output[1] = Response([kind |-> "integer", val |-> "7"], "result", 0, "pong")
    /\ output[2] = Response([kind |-> "string", val |-> "a"], "result", 0, "pong")

\* ---------------------------------------------------------------- C12
\* an envelope (jsonrpc and method present) that has no id member
C12_NoId(f) ==
    /\ f.kind = "json" /\ f.jsonrpc # Missing /\ f.method # Missing
    /\ f.id.kind = "absent"

\* C12: an iteration whose frame has no id writes no output frame, whatever
\* the method, and leaves the dispatcher in its loop, ready for the next
\* frame.
C12_NotificationSilent ==
    [][(linesRead' = linesRead + 1 /\ C12_NoId(line')) =>
        /\ output' = output
        /\ dpc' = "loop"]_vars

\* after an answered request, a notification with an unknown method was
\* taken and nothing was written for it
C12_Witness ==
    /\ linesRead = 2
    /\ dpc = "loop"
    /\ C12_NoId(line)
    /\ line.method = "other"
    /\ Len(output) = 1
    /\ output[1].body = "pong"

\* ---------------------------------------------------------------- C13
\* a frame dispatched as a shutdown request
C13_IsShutdown(f) ==
    /\ f.kind = "json" /\ f.jsonrpc # Missing /\ f.method = "shutdown"
    /\ f.id.kind \in {"integer", "string"}

\* C13: the iteration that dispatches a shutdown request ends the process
\* and writes nothing; once the process has ended, no step reads a line or
\* writes a frame.
C13_ShutdownSilences ==
    [][/\ (linesRead' = linesRead + 1 /\ C13_IsShutdown(line')) =>
            (dpc' = "exited" /\ output' = output)
       /\ dpc = "exited" =>
            (dpc' = "exited" /\ output' = output /\ linesRead' = linesRead)]_vars

\* the process ended on a shutdown request, its response never written,
\* while input was still to come
C13_Witness ==
    /\ dpc = "exited"
    /\ C13_IsShutdown(line)
    /\ linesRead < MaxLines
    /\ output = <<>>

\* ---------------------------------------------------------------- C14
\* a request (jsonrpc, method and a number or string id)
C14_IsRequest(f) ==
    /\ f.kind = "json" /\ f.jsonrpc # Missing /\ f.method # Missing
    /\ f.id.kind \in {"integer", "string"}

\* C14: an iteration whose frame is a request with an unknown method writes
\* exactly the error -32601 under the request's id; one whose frame is a
\* transform, normalize or computeDigest request with params missing, null
\* or ill-typed writes exactly the error -32602 under the request's id;
\* both leave the dispatcher in its loop.
C14_ErrorResponses ==
    [][(linesRead' = linesRead + 1 /\ C14_IsRequest(line')) =>
        /\ line'.method \notin {"ping", "shutdown", "transform", "normalize", "computeDigest"} =>
            /\ output' = Append(output, Response(line'.id, "error", -32601, ""))
            /\ dpc' = "loop"
        /\ (/\ line'.method \in {"transform", "normalize", "computeDigest"}
            /\ line'.params \in {Missing, "null", "bad"}) =>
            /\ output' = Append(output, Response(line'.id, "error", -32602, ""))
            /\ dpc' = "loop"]_vars

\* an unknown method got its error, and the normalize request with
\* ill-typed params after it got its own
C14_Witness ==
    /\ linesRead = 2
    /\ dpc = "loop"
    /\ C14_IsRequest(line)
    /\ line.method = "normalize"
    /\ line.params = "bad"
    /\ Len(output) = 2
    /\ output[1].code = -32601
    /\ output[1].id.kind = "string"
    /\ output[2] = Response(line.id, "error", -32602, "")
    /\ line.id.kind = "integer"

\* ---------------------------------------------------------------- C15
\* the flags of a normalize call as the claim gives them: remove_bom is set
\* only when given as true, normalize_lf unless given as false
C15_RemoveBom == fnArg.remove_bom = "true"
C15_NormalizeLf == fnArg.normalize_lf # "false"

\* s without the CRs that an LF follows
RECURSIVE C15_DropPairedCr(_, _)
C15_DropPairedCr(s, i) ==
    IF i > Len(s) THEN <<>>
    ELSE IF s[i] = "CR" /\ i < Len(s) /\ s[i + 1] = "LF"
         THEN C15_DropPairedCr(s, i + 1)
    ELSE <<s[i]>> \o C15_DropPairedCr(s, i + 1)

C15_Expected ==
    LET c == fnArg.content
        s1 == IF C15_RemoveBom /\ Len(c) > 0 /\ c[1] = "BOM"
              THEN SubSeq(c, 2, Len(c)) ELSE c
    IN IF C15_NormalizeLf THEN C15_DropPairedCr(s1, 1) ELSE s1

C15_Pairs(s) == Cardinality({i \in 1..(Len(s) - 1) : s[i] = "CR" /\ s[i + 1] = "LF"})

\* C15: the content normalize returns is the input without its first
\* character iff remove_bom is set and that character is the marker (every
\* other marker stays), and then without the CR of every CRLF pair iff
\* normalize_lf is set (every other CR stays, every LF stays); with both
\* flags off it is the input; an absent remove_bom is false and an absent
\* normalize_lf is true.
C15_Normalize ==
    (fnPc = "returned" /\ fnRet.fn = "normalize") =>
        LET c == fnArg.content
            out == fnRet.content
            stripped == C15_RemoveBom /\ Len(c) > 0 /\ c[1] = "BOM" IN
        /\ out = C15_Expected
        /\ CountIn(out, "BOM") = CountIn(c, "BOM") - (IF stripped THEN 1 ELSE 0)
        /\ CountIn(out, "CR") =
                CountIn(c, "CR") - (IF C15_NormalizeLf THEN C15_Pairs(c) ELSE 0)
        /\ CountIn(out, "LF") = CountIn(c, "LF")
        /\ CountIn(out, "x") = CountIn(c, "x")
        /\ (~C15_RemoveBom /\ ~C15_NormalizeLf) => out = c

\* marker, CR, CR, LF with remove_bom set and normalize_lf left to its
\* default: the marker and the paired CR are gone, the lone CR is kept
C15_Witness ==
    /\ fnPc = "returned"
    /\ fnArg.fn = "normalize"
    /\ fnArg.content = <<"BOM", "CR", "CR", "LF">>
    /\ fnArg.remove_bom = "true"
    /\ fnArg.normalize_lf = Missing
    /\ fnRet.content = <<"CR", "LF">>

\* ---------------------------------------------------------------- C16
\* C16: for every content and every combination of the two flags, the
\* changed flag normalize returns is true iff the returned content is not
\* the input content.
C16_ChangedIffDiffers ==
    (fnPc = "returned" /\ fnRet.fn = "normalize") =>
        (fnRet.changed <=> (fnRet.content # fnArg.content))

\* remove_bom set on a content whose marker is not at the start, and
\* normalize_lf off on a content with a CRLF: nothing changed
C16_Witness ==
    /\ fnPc = "returned"
    /\ fnArg.fn = "normalize"
    /\ fnArg.content = <<"x", "BOM", "CR", "LF">>
    /\ fnArg.remove_bom = "true"
    /\ fnArg.normalize_lf = "false"
    /\ fnRet.changed = FALSE
    /\ fnRet.content = fnArg.content

\* ---------------------------------------------------------------- C17
\* the bijections of 1..n
Perms(n) == {p \in [1..n -> 1..n] : \A i, j \in 1..n : i # j => p[i] # p[j]}

\* the list fs in the order perm gives
Permuted(fs, perm) == [i \in 1..Len(fs) |-> fs[perm[i]]]

\* C17: the digest computeDigest returned for a list of records is the
\* digest it returns for every permutation of that list, records that share
\* a path and differ in size or mtime included.
C17_PermutationInvariant ==
    (fnPc = "returned" /\ fnRet.fn = "computeDigest") =>
        \A perm \in Perms(Len(fnArg.files)) :
            handle_compute_digest([fnArg EXCEPT !.files = Permuted(fnArg.files, perm)]).digest
                = fnRet.digest

\* ---------------------------------------------------------------- C18
\* the byte-wise order of the paths: "B" (0x42) < "a" (0x61) < "aB"
C18_PathRank(p) ==
    CASE p = <<"B">> -> 1
      [] p = <<"a">> -> 2
      [] p = <<"a", "B">> -> 3

C18_Number(n) ==
    CASE n = 0 -> <<"0">>
      [] n = 1 -> <<"1">>
      [] n = 2 -> <<"2">>
      [] n = 10 -> <<"1", "0">>

\* the line path|size|mtime and a newline
C18_Line(f) == f.path \o <<"|">> \o C18_Number(f.size) \o <<"|">> \o C18_Number(f.mtime) \o <<"\n">>

\* C18: the bytes computeDigest hashes are the lines path|size|mtime\n of
\* the input records, each record once, arranged so that the paths ascend
\* byte-wise; the digest is the hash of those bytes, and for the empty list
\* it is the hash of the empty byte string.
C18_HashedBytes ==
    (fnPc = "returned" /\ fnRet.fn = "computeDigest") =>
        LET fs == fnArg.files
            n == Len(fs) IN
        /\ \E perm \in Perms(n) :
            LET arranged == Permuted(fs, perm) IN
            /\ \A i, j \in 1..n :
                i < j => C18_PathRank(arranged[i].path) <= C18_PathRank(arranged[j].path)
            /\ HashedBytes(fs) = Flatten([i \in 1..n |-> C18_Line(arranged[i])])
            /\ fnRet.digest = Sha256Hex(Flatten([i \in 1..n |-> C18_Line(arranged[i])]))
        /\ n = 0 => fnRet.digest = Sha256Hex(<<>>)

\* three records given in descending path order, one with a two-digit size
C18_Witness ==
    /\ fnPc = "returned"
    /\ fnArg.fn = "computeDigest"
    /\ fnArg.files = <<FileInfo(<<"a", "B">>, 10, 0), FileInfo(<<"a">>, 1, 0),
                       FileInfo(<<"B">>, 1, 2)>>
    /\ fnRet.digest = Sha256Hex(<<"B", "|", "1", "|", "2", "\n",
                                  "a", "|", "1", "|", "0", "\n",
                                  "a", "B", "|", "1", "0", "|", "0", "\n">>)

\* ---------------------------------------------------------------- C19
\* the quotient rounded up
C19_Ceil(a, b) == (a + b - 1) \div b

\* C19: for n > 1 and more than n tasks, split(n) returns exactly n chunks
\* that are the batch cut in order, each of ceil(len/n) tasks but the last,
\* which has at most that many.
C19_SplitIntoN ==
    (fnPc = "returned" /\ fnRet.fn = "split") =>
        LET n == fnArg.num_chunks
            len == Len(fnArg.tasks)
            chunks == fnRet.chunks IN
        (n > 1 /\ len > n) =>
            /\ Len(chunks) = n
            /\ Flatten(chunks) = fnArg.tasks
            /\ \A i \in 1..(n - 1) : Len(chunks[i]) = C19_Ceil(len, n)
            /\ Len(chunks[n]) >= 1
            /\ Len(chunks[n]) <= C19_Ceil(len, n)

\* ---------------------------------------------------------------- C20
\* C20: split(n) of a batch of more than n tasks returns n chunks whose
\* sizes differ by at most one, the larger ones first (10 tasks in 3 chunks:
\* 4, 3 and 3).
C20_SplitEvenly ==
    (fnPc = "returned" /\ fnRet.fn = "split") =>
        LET n == fnArg.num_chunks
            len == Len(fnArg.tasks)
            chunks == fnRet.chunks IN
        (n >= 1 /\ len > n) =>
            /\ Len(chunks) = n
            /\ \A i, j \in 1..n :
                i < j => /\ Len(chunks[i]) >= Len(chunks[j])
                         /\ Len(chunks[i]) - Len(chunks[j]) <= 1
            /\ (len = 10 /\ n = 3) =>
                <<Len(chunks[1]), Len(chunks[2]), Len(chunks[3])>> = <<4, 3, 3>>

\* ---------------------------------------------------------------- C21
\* C21: whenever n <= 1 or the batch has at most n tasks, split(n) returns
\* one chunk, which is the whole batch in order (for an empty batch, one
\* empty chunk).
C21_SingleChunk ==
    (fnPc = "returned" /\ fnRet.fn = "split") =>
        ((fnArg.num_chunks <= 1 \/ Len(fnArg.tasks) <= fnArg.num_chunks) =>
            /\ Len(fnRet.chunks) = 1
            /\ fnRet.chunks[1] = fnArg.tasks)

\* a batch of exactly n tasks, n > 1, came back as one chunk
C21_Witness ==
    /\ fnPc = "returned"
    /\ fnArg.fn = "split"
    /\ fnArg.num_chunks = 3
    /\ fnArg.tasks = <<1, 2, 3>>
    /\ fnRet.chunks = <<<<1, 2, 3>>>>

\* ---------------------------------------------------------------- C22
\* the bytes of a content, character by character
C22_Bytes(c) ==
    Cardinality({i \in 1..Len(c) : c[i] # "BOM"})
        + 3 * Cardinality({i \in 1..Len(c) : c[i] = "BOM"})

C22_Fenced(c) == \E i \in 1..Len(c) : i + 2 <= Len(c) /\ SubSeq(c, i, i + 2) = <<"TICK", "TICK", "TICK">>

C22_Cost(c) == IF C22_Fenced(c) THEN 2 * C22_Bytes(c) ELSE C22_Bytes(c)

RECURSIVE C22_Total(_, _)
C22_Total(ts, k) == IF k = 0 THEN 0 ELSE C22_Total(ts, k - 1) + C22_Cost(ts[k])

\* C22: estimated_cost is the content's length in bytes, doubled iff the
\* content contains three backticks in a row; the total_cost of a TaskBatch
\* is the sum of its tasks' estimated costs, 0 for the empty batch.
C22_Costs ==
    /\ (fnPc = "returned" /\ fnRet.fn = "estimated_cost") =>
            fnRet.cost = C22_Cost(fnArg.content)
    /\ (fnPc = "returned" /\ fnRet.fn = "TaskBatch::new") =>
            /\ fnRet.total_cost = C22_Total(fnArg.tasks, Len(fnArg.tasks))
            /\ fnArg.tasks = <<>> => fnRet.total_cost = 0

\* a batch of a fenced 7-byte content of 5 characters, a 1-byte content and
\* an empty one: 14 + 1 + 0
C22_Witness ==
    /\ fnPc = "returned"
    /\ fnArg.fn = "TaskBatch::new"
    /\ fnArg.tasks = <<<<"BOM", "TICK", "TICK", "TICK", "x">>, <<"x">>, <<>>>>
    /\ fnRet.total_cost = 15

\* ---------------------------------------------------------------- C23
\* C23: estimated_cost("Hello world") is 11 and
\* estimated_cost("```rust\ncode\n```") is 34.
C23_TestCosts ==
    (fnPc = "returned" /\ fnRet.fn = "estimated_cost") =>
        /\ fnArg.content = <<"H", "e", "l", "l", "o", " ", "w", "o", "r", "l", "d">> =>
                fnRet.cost = 11
        /\ fnArg.content = <<"TICK", "TICK", "TICK", "r", "u", "s", "t", "\n",
                             "c", "o", "d", "e", "\n", "TICK", "TICK", "TICK">> =>
                fnRet.cost = 34

\* ---------------------------------------------------------------- C25
\* C25: a pool constructed with no worker count given, by ThreadPool::new,
\* by the builder or as the global pool, has at least 1 and at most 8
\* workers.
C25_DefaultCountCapped ==
    (fnPc = "returned" /\ fnRet.fn = "worker_count" /\ fnArg.num_workers = -1) =>
        (fnRet.count >= 1 /\ fnRet.count <= 8)

\* ---------------------------------------------------------------- C24
\* the sum of one counter over the records of the first k workers
RECURSIVE C24_Sum(_, _)
C24_Sum(field, k) ==
    IF k = 0 THEN 0 ELSE C24_Sum(field, k - 1) + stats[workers[k]][field]

\* C24: a stats() call returns a view whose total_tasks, total_duration_ms
\* and total_errors are the sums of the per-worker records' counters, whose
\* num_workers is the pool's worker count and whose average duration is
\* total duration over total tasks (0 when there are no tasks); the call
\* leaves every record as it was.
C24_StatsView ==
    [][\A c \in SingleCaller :
        (callers[c].pc = "idle" /\ callers'[c].pc = "done" /\ callers'[c].op = "stats") =>
            LET v == callers'[c].view
                tasks == C24_Sum("tasks_processed", Len(workers))
                duration == C24_Sum("total_duration_ms", Len(workers)) IN
            /\ stats' = stats
            /\ DOMAIN stats = Range(workers)
            /\ v.total_tasks = tasks
            /\ v.total_duration_ms = duration
            /\ v.total_errors = C24_Sum("errors", Len(workers))
            /\ v.num_workers = num_workers
            /\ v.num_workers = Len(workers)
            /\ v.average_duration_ms = IF tasks = 0 THEN <<0, 1>> ELSE <<duration, tasks>>]_vars

\* a view of a 2-worker pool after a batch with a Success that took time
\* and a Failure
C24_Witness ==
    \E c \in SingleCaller :
        /\ callers[c].pc = "done" /\ callers[c].op = "stats"
        /\ callers[c].view.num_workers = 2
        /\ callers[c].view.total_tasks >= 1
        /\ callers[c].view.total_duration_ms >= 1
        /\ callers[c].view.total_errors >= 1

\* ---------------------------------------------------------------- C26
\* C26: at most one worker is in the dequeue step at a time; the receiver
\* lock is held by a worker exactly while that worker is in the dequeue
\* step, so never by a worker that is executing the renderer or sending a
\* result, nor by one that has ended.
C26_LockOnlyWhileDequeuing ==
    /\ Cardinality({w \in WorkerIds : wpc[w] = "recv"}) <= 1
    /\ \A w \in WorkerIds : (rxLock = w) <=> (wpc[w] = "recv")
    /\ rxLock \in WorkerIds \cup {NoWorker}

\* two workers are executing the renderer at the same time, the lock free
C26_Witness ==
    /\ wpc[0] = "exec"
    /\ wpc[1] = "exec"
    /\ wtask[0] # wtask[1]
    /\ rxLock = NoWorker

\* ---------------------------------------------------------------- C27
C27_Panicked == {w \in WorkerIds : wpc[w] = "panicked"}
C27_Live == {w \in WorkerIds : wpc[w] \in {"lock", "recv", "exec"}}

\* C27: the step in which the renderer crashes under a worker ends that
\* worker, emits no result and hands nothing to a caller, and takes one off
\* the number of live workers; the worker stays ended in every later step;
\* the tasks that were executed and have no result are as many as the
\* crashed workers, and the live workers are at most num_workers minus the
\* crashed ones.
C27_CrashEndsWorker ==
    /\ [](/\ Cardinality({t \in TaskIds :
                    dequeued[t] >= 1 /\ Holders(t) = {} /\ emitted[t] = 0})
                = Cardinality(C27_Panicked)
          /\ Cardinality(C27_Live) + Cardinality(C27_Panicked) <= num_workers)
    /\ [][\A w \in WorkerIds :
            /\ wpc[w] = "panicked" => wpc'[w] = "panicked"
            /\ (wpc[w] # "panicked" /\ wpc'[w] = "panicked") =>
                /\ wpc[w] = "exec"
                /\ result_channel' = result_channel
                /\ emitted' = emitted
                /\ callers' = callers
                /\ \A v \in WorkerIds \ {w} : wpc'[v] = wpc[v]]_vars

\* one worker of two crashed on the first task of a batch, and the other
\* one is executing a later task
C27_Witness ==
    /\ poolPc = "running"
    /\ num_workers = 2
    /\ wpc[0] = "panicked"
    /\ wpc[1] = "exec"
    /\ dequeued[1] = 1 /\ emitted[1] = 0 /\ wtask[1] > 1
    /\ \E c \in SingleCaller : callers[c].op = "batch"

C29_CreditToFirst ==
    /\ [](\A w \in DOMAIN stats :
            w # statsFirst =>
                stats[w] = [tasks_processed |-> 0, total_duration_ms |-> 0, errors |-> 0])
    /\ [][\A c \in SingleCaller :
            (/\ callers[c].pc = "collect"
             /\ callers'[c].received = callers[c].received + 1
             /\ result_channel # <<>>) =>
                LET r == Head(result_channel)
                    old == stats[statsFirst] IN
                /\ statsFirst \in DOMAIN stats
                /\ stats' = [stats EXCEPT ![statsFirst] =
                        IF r.kind = "Success"
                        THEN [old EXCEPT !.tasks_processed = @ + 1,
                                         !.total_duration_ms = @ + r.duration_ms]
                        ELSE [old EXCEPT !.errors = @ + 1]]]_vars

\* a batch of tasks 1 and 2 on two workers: worker 1 took task 1 first and
\* is still executing it, so task 2 was executed by worker 0; its result
\* was collected and credited to worker 1's record, which shows one task
\* while worker 1 has completed none, and worker 0's record shows none
C29_Witness ==
    /\ num_workers = 2
    /\ statsFirst = 1
    /\ nextId = 3
    /\ wpc[1] = "exec" /\ wtask[1] = 1
    /\ \E c \in SingleCaller :
        /\ callers[c].op = "batch"
        /\ Len(callers[c].results) = 1
        /\ callers[c].results[1].id = 2
    /\ stats[1].tasks_processed + stats[1].errors = 1
    /\ stats[0].tasks_processed + stats[0].errors = 0

\* ---------------------------------------------------------------- C30
\* C30: whenever the single caller is between calls or has a call's return
\* value in hand, so that every task submitted so far has had its result
\* returned, the total of tasks_processed plus errors over the stats
\* records is the number of results returned so far.
C30_StatsCountResults ==
    \A c \in SingleCaller :
        callers[c].pc \in {"idle", "done"} =>
            C24_Sum("tasks_processed", Len(workers)) + C24_Sum("errors", Len(workers))
                = nextId - 1

\* ---------------------------------------------------------------- C39
\* normalize applied to the output of the call, with the call's flags
C39_Again == handle_normalize([fnArg EXCEPT !.content = fnRet.content])

\* the content begins with two byte-order markers
C39_TwoBoms(s) == Len(s) >= 2 /\ s[1] = "BOM" /\ s[2] = "BOM"

\* the content has a CR directly before a CRLF pair
C39_CrBeforeCrLf(s) ==
    \E i \in 1..(Len(s) - 2) : s[i] = "CR" /\ s[i + 1] = "CR" /\ s[i + 2] = "LF"

\* C39 as stated: for every content and every setting of the flags,
\* normalize applied to its own output with the same flags returns that
\* output unchanged with changed = false, and with normalize_lf set the
\* output contains no CRLF pair.
C39_Idempotent ==
    (fnPc = "returned" /\ fnRet.fn = "normalize") =>
        /\ C39_Again.content = fnRet.content
        /\ C39_Again.changed = FALSE
        /\ C15_NormalizeLf => ~ContainsCrLf(fnRet.content)

\* C39 amended: the same, for every content that does not begin with two
\* byte-order markers when remove_bom is set and has no CR directly before
\* a CRLF pair when normalize_lf is set; and the second application changes
\* something exactly for the other contents.
C39_IdempotentOnce ==
    (fnPc = "returned" /\ fnRet.fn = "normalize") =>
        LET settled == /\ ~(C15_RemoveBom /\ C39_TwoBoms(fnArg.content))
                       /\ ~(C15_NormalizeLf /\ C39_CrBeforeCrLf(fnArg.content)) IN
        /\ settled <=> (C39_Again.content = fnRet.content /\ C39_Again.changed = FALSE)
        /\ settled => (C15_NormalizeLf => ~ContainsCrLf(fnRet.content))
        /\ C39_Again.changed <=> (C39_Again.content # fnRet.content)

\* a call that stripped the marker and converted a CRLF, and whose output
\* the second application leaves alone
C39_Witness ==
    /\ fnPc = "returned"
    /\ fnArg.fn = "normalize"
    /\ fnArg.content = <<"BOM", "x", "CR", "LF">>
    /\ fnArg.remove_bom = "true"
    /\ fnArg.normalize_lf = "true"
    /\ fnRet.content = <<"x", "LF">>
    /\ fnRet.changed = TRUE
    /\ C39_Again.content = <<"x", "LF">>
    /\ C39_Again.changed = FALSE

\* ---------------------------------------------------------------- C34
\* the number of tasks in the first k chunks
RECURSIVE C34_Before(_, _)
C34_Before(chunks, k) ==
    IF k = 0 THEN 0 ELSE C34_Before(chunks, k - 1) + Len(chunks[k])

\* C34: for every batch and every n, the chunks split(n) returns,
\* concatenated in order, are the batch's task sequence: the j-th task of
\* chunk i is the task at position j after all earlier chunks, and the
\* chunks hold as many tasks as the batch; no chunk is empty unless the
\* batch is empty.
C34_SplitPartitions ==
    (fnPc = "returned" /\ fnRet.fn = "split") =>
        LET tasks == fnArg.tasks
            chunks == fnRet.chunks IN
        /\ Len(chunks) >= 1
        /\ C34_Before(chunks, Len(chunks)) = Len(tasks)
        /\ \A i \in 1..Len(chunks) :
            /\ \A j \in 1..Len(chunks[i]) :
                chunks[i][j] = tasks[C34_Before(chunks, i - 1) + j]
            /\ Len(chunks[i]) = 0 => Len(tasks) = 0

\* 10 tasks cut by split(3) into more than one chunk, the last one shorter
C34_Witness ==
    /\ fnPc = "returned"
    /\ fnArg.fn = "split"
    /\ fnArg.num_chunks = 3
    /\ Len(fnArg.tasks) = 10
    /\ fnRet.chunks = <<<<1, 2, 3, 4>>, <<5, 6, 7, 8>>, <<9, 10>>>>

\* ---------------------------------------------------------------- C33
\* the Failures among the results
C33_Failed(rs) == Cardinality({i \in 1..Len(rs) : rs[i].kind = "Failure"})

\* C33: the error_rate of the view is the number of failed tasks over the
\* number of tasks completed (successful and failed), so it lies between 0
\* and 1, and it is 0 when no task failed or none completed; throughput is
\* 0 when the total duration is 0.
C33_ErrorRate ==
    (fnPc = "returned" /\ fnRet.fn = "error_rate") =>
        LET failed == C33_Failed(fnArg.results)
            completed == Len(fnArg.results)
            rate == fnRet.error_rate IN
        /\ rate[2] > 0
        /\ 0 <= rate[1] /\ rate[1] <= rate[2]
        /\ completed > 0 => rate[1] * completed = failed * rate[2]
        /\ (failed = 0 \/ completed = 0) => rate[1] = 0
        /\ fnRet.view.total_duration_ms = 0 => fnRet.throughput[1] = 0

\* ---------------------------------------------------------------- C31
\* C31: the configured queue capacity is not enforced: whatever the length
\* of the submission queue, a process call's send, a process_batch send
\* and a shutdown send go through at once (none waits or is rejected).
C31_SubmitNeverBlocks ==
    /\ \A c \in SingleCaller :
        /\ (callers[c].pc = "send" /\ callers[c].tosend # <<>>) => ENABLED BatchSend(c)
        /\ (poolPc = "running" /\ callers[c].pc = "idle" /\ nextId <= MaxTasks)
                => ENABLED ProcessCall(c)
    /\ poolPc = "shutdown_send" => ENABLED ShutdownSend

\* the submission queue holds more pending tasks than the configured
\* capacity, and the caller is about to send one more
C31_Witness ==
    /\ poolPc = "running"
    /\ Len(task_channel) > QueueSize
    /\ \A i \in 1..Len(task_channel) : task_channel[i].type = "Task"
    /\ \E c \in SingleCaller : callers[c].pc = "send" /\ callers[c].tosend # <<>>

\* ---------------------------------------------------------------- C32
\* C32: a worker returns from its loop only in a step in which it dequeues
\* a Shutdown message, or its receive on the task queue fails (the queue is
\* empty and its sender is gone), or its send of a result fails (the
\* result receiver is gone); a worker whose renderer returned and whose
\* send went through is back at the dequeue step, with the result on the
\* channel; and the step in which one worker returns changes no other
\* worker. A worker that has returned stays so.
C32_LoopExits ==
    [][\A w \in WorkerIds :
        /\ wpc[w] = "exited" => wpc'[w] = "exited"
        /\ (wpc[w] # "exited" /\ wpc'[w] = "exited") =>
            /\ \/ /\ wpc[w] = "recv"
                   /\ task_channel # <<>>
                   /\ Head(task_channel).type = "Shutdown"
                   /\ task_channel' = Tail(task_channel)
                \/ /\ wpc[w] = "recv"
                   /\ task_channel = <<>>
                   /\ poolPc \in {"terminated", "dropped"}
                \/ /\ wpc[w] = "exec"
                   /\ poolPc \in {"terminated", "dropped"}
                   /\ result_channel' = result_channel
            /\ \A v \in WorkerIds \ {w} : wpc'[v] = wpc[v] /\ wtask'[v] = wtask[v]
        /\ (wpc[w] = "exec" /\ wpc'[w] \notin {"exec", "exited", "panicked"}) =>
            /\ wpc'[w] = "lock"
            /\ Len(result_channel') = Len(result_channel) + 1
            /\ result_channel'[Len(result_channel')].id = wtask[w]
        /\ (wpc[w] = "exec" /\ poolPc \notin {"terminated", "dropped"}) =>
            wpc'[w] \in {"exec", "lock", "panicked"}]_vars

\* the pool was dropped after a call: worker 0 returned on the failed
\* receive, worker 1 is still in its loop, about to take the lock
C32_Witness ==
    /\ poolPc = "dropped"
    /\ nextId > 1
    /\ wpc[0] = "exited"
    /\ wpc[1] = "lock"
    /\ task_channel = <<>>

\* ---------------------------------------------------------------- C35
\* C35: shutdown drains the queue: a task that was in the queue when
\* shutdown began is ahead of every Shutdown message, no worker dequeues a
\* Shutdown message while such a task is still in the queue, and once a
\* worker has exited on Shutdown every such task has been dequeued.
C35_ShutdownDrains ==
    /\ [](\A i, j \in 1..Len(task_channel) :
            (/\ task_channel[i].type = "Shutdown"
             /\ task_channel[j].type = "Task"
             /\ task_channel[j].id \in queuedAtShutdown) => j < i)
    /\ []((\E w \in WorkerIds : wpc[w] = "exited") =>
            \A t \in queuedAtShutdown : dequeued[t] >= 1)
    /\ [][\A w \in WorkerIds :
            (wpc[w] = "recv" /\ wpc'[w] = "exited") =>
                /\ Head(task_channel).type = "Shutdown"
                /\ QueuedTasks(task_channel) \cap queuedAtShutdown = {}]_vars

\* shutdown began with two tasks in the queue; both were dequeued, a
\* worker has exited on Shutdown, and a task sent after shutdown began is
\* left in the queue
C35_Witness ==
    /\ Cardinality(queuedAtShutdown) = 2
    /\ \E w \in WorkerIds : wpc[w] = "exited"
    /\ \A t \in queuedAtShutdown : dequeued[t] = 1
    /\ \E t \in QueuedTasks(task_channel) : t \notin queuedAtShutdown

\* ---------------------------------------------------------------- C36
\* C36 as stated: the global pool is built at most once; with parallelism
\* disabled no global_pool() call returns a pool; and a global_pool() call
\* that begins after a shutdown_global_pool() call returns none.
C36_NoneAfterShutdown ==
    /\ [](built <= 1)
    /\ [](~from_env(FASTMD_PARALLEL).enabled =>
            \A t \in GlobalThreads : gret[t] # "Some")
    /\ [][\A t \in GlobalThreads :
            (gpc[t] = "read" /\ gpc'[t] = "idle" /\ gsaw[t] # "no") =>
                gret'[t] = "None"]_vars

\* C36 amended: the global pool is built at most once, whatever the calls
\* and their interleaving; with parallelism disabled no global_pool() call
\* returns a pool and none is built; a global_pool() call that begins after
\* a shutdown_global_pool() call made once the initialisation had stored
\* its result returns none, and from that shutdown on there is no pool; a
\* shutdown_global_pool() call made before that leaves the initialisation
\* to come.
C36_NoneAfterLateShutdown ==
    /\ [](built <= 1)
    /\ [](~from_env(FASTMD_PARALLEL).enabled =>
            /\ built = 0
            /\ GLOBAL_POOL = "None"
            /\ \A t \in GlobalThreads : gret[t] # "Some")
    /\ [](gdown = "late" => GLOBAL_POOL = "None")
    /\ [](GLOBAL_POOL = "Some" => built = 1 /\ PoolInitDone)
    /\ [][\A t \in GlobalThreads :
            (gpc[t] = "read" /\ gpc'[t] = "idle" /\ gsaw[t] = "late") =>
                gret'[t] = "None"]_vars

\* the pool was built and returned to thread 1, shutdown_global_pool was
\* called, and a call of thread 2 that began afterwards returned none
C36_Witness ==
    /\ built = 1
    /\ gdown = "late"
    /\ gret[1] = "Some"
    /\ gsaw[2] = "late" /\ gpc[2] = "idle" /\ gret[2] = "None"
    /\ POOL_INIT = "complete"

\* ---------------------------------------------------------------- C37
\* C37: on a pool with at least one worker, when the renderer always
\* returns and the workers are scheduled fairly, every process call and
\* every process_batch call of the single caller eventually returns; on a
\* pool constructed with zero workers a process call never returns.
C37_CallsReturn ==
    /\ \A c \in SingleCaller :
        (num_workers >= 1 /\ callers[c].pc \in {"recv", "send", "collect"})
            ~> (callers[c].pc = "done")
    /\ [](\A c \in SingleCaller :
            (num_workers = 0 /\ callers[c].op = "process") => callers[c].pc = "recv")

\* a batch of three tasks on a one-worker pool has returned its three
\* results
C37_Witness ==
    /\ num_workers = 1
    /\ \E c \in SingleCaller :
        /\ callers[c].pc = "done"
        /\ callers[c].op = "batch"
        /\ Len(callers[c].submitted) = 3
        /\ Len(callers[c].results) = 3

\* ---------------------------------------------------------------- C38
\* the tasks that a worker dequeued and died on: no result, no holder
C38_Lost == {t \in TaskIds : dequeued[t] >= 1 /\ emitted[t] = 0 /\ Holders(t) = {}}

\* C38: while the pool exists a receive in process or process_batch never
\* fails: every receive that returns takes a result off the channel, even
\* when no worker is left. When a worker has died executing a task, the
\* single caller is inside the call that submitted the task and has not
\* returned, in that state and (the dead worker staying dead) in every
\* later one: it gets no error and no shorter result list.
C38_ReceiveNeverFails ==
    /\ [][\A c \in SingleCaller :
            callers'[c].received = callers[c].received + 1 =>
                /\ result_channel # <<>>
                /\ result_channel' = Tail(result_channel)
                /\ callers'[c].results = Append(callers[c].results, Head(result_channel))]_vars
    /\ [](\A c \in SingleCaller :
            C38_Lost # {} =>
                /\ callers[c].pc \in {"recv", "send", "collect"}
                /\ C38_Lost \subseteq Range(callers[c].submitted)
                /\ Len(callers[c].results) < callers[c].task_count)
    /\ [][C38_Lost \subseteq C38_Lost']_vars

\* the only worker of the pool died on the task of a process call: the
\* channel is empty, no sender but the pool's is left, the caller waits
C38_Witness ==
    /\ poolPc = "running"
    /\ num_workers = 1
    /\ wpc[0] = "panicked"
    /\ result_channel = <<>>
    /\ \E c \in SingleCaller :
        /\ callers[c].pc = "recv"
        /\ callers[c].op = "process"
        /\ callers[c].submitted[1] \in C38_Lost

====
